---- MODULE Spec2Model ----
(***************************************************************************)
(* vector-xlite distributed cluster: the replicated command pipeline.      *)
(*                                                                         *)
(* A cluster node runs a Raft peer (VxRaftNode), the FSM that turns        *)
(* committed log entries into backend calls (VxFSM), the gRPC service      *)
(* (ClusterServer with the callbacks wired in the node's main) and the     *)
(* LeaderRedirectInterceptor that guards it.  The Raft library and the     *)
(* vector backend are collaborators: Raft is modelled by what the node     *)
(* relies on (one committed log, applied in order by every FSM; State()    *)
(* and Leader() are separate reads), the backend by its create / insert /  *)
(* search contract.                                                        *)
(***************************************************************************)
EXTENDS Integers, Sequences, FiniteSets, TLC

\* ---------------------------------------------------------------- bounds
MaxLog == 3          \* entries the Raft log may hold
MaxId == 2           \* point ids are 1..MaxId
MaxDim == 2          \* vector dimensions are 1..MaxDim
MaxCfg == 3          \* ClientConfig.MaxRedirects is drawn from -1..MaxCfg
MaxAddrLen == 3      \* the longest arbitrary address string

Nodes == {"n1", "n2"}
Clients == {"a", "b"}
Colls == {"c1"}
Ids == 1..MaxId
Dims == 1..MaxDim

\* ------------------------------------------------------------- addresses
\* An address is a string, modelled as the sequence of its characters.
NoAddr == <<>>

Host == <<"h">>

\* main: -port is the base port; the node id picks it in the model
BasePort(n) == IF n = "n1" THEN <<"5", "0", "0">> ELSE <<"5", "0", "1">>

\* main: raftPort := *basePort + "1"; raftAddr := "127.0.0.1:" + raftPort
RaftAddr(n) == Host \o <<":">> \o BasePort(n) \o <<"1">>

\* main: clusterPort := *basePort + "2": the port the gRPC service listens on
ClusterAddr(n) == Host \o <<":">> \o BasePort(n) \o <<"2">>

RaftAddrs == {RaftAddr(n) : n \in Nodes}

\* strings.LastIndex(s, ":"), 1-based; 0 when there is no colon
LastColon(s) ==
    LET idx == {i \in 1..Len(s) : s[i] = ":"}
    IN IF idx = {} THEN 0 ELSE CHOOSE i \in idx : \A j \in idx : j <= i

\* a variant that replaces the last character of the port whatever it is
convertRaftToClusterAddrAnyPort(raftAddr) ==
    LET lastColon == LastColon(raftAddr)
    IN IF lastColon = 0 \/ lastColon = Len(raftAddr)
       THEN [ok |-> FALSE, addr |-> NoAddr]
       ELSE [ok |-> TRUE, addr |-> SubSeq(raftAddr, 1, Len(raftAddr) - 1) \o <<"2">>]

\* convertRaftToClusterAddr: the last digit '1' of the port becomes '2'
convertRaftToClusterAddr(raftAddr) ==
    LET lastColon == LastColon(raftAddr)
        host == SubSeq(raftAddr, 1, lastColon - 1)
        port == SubSeq(raftAddr, lastColon + 1, Len(raftAddr))
    IN IF lastColon = 0
       THEN [ok |-> FALSE, addr |-> NoAddr]
       ELSE IF Len(port) = 0 \/ port[Len(port)] # "1"
       THEN [ok |-> FALSE, addr |-> NoAddr]
       ELSE [ok |-> TRUE,
             addr |-> host \o <<":">> \o SubSeq(port, 1, Len(port) - 1) \o <<"2">>]

\* ----------------------------------------------------------- RPC methods
WriteMethods == {"CreateCollection", "Insert", "Delete", "DeleteCollection"}
MembershipMethods == {"JoinCluster", "LeaveCluster"}
ReadMethods == {"Search", "CollectionExists", "GetClusterInfo"}
Methods == WriteMethods \cup MembershipMethods \cup ReadMethods

\* a variant that also guards the reads
isWriteOperationAll(method) == TRUE

\* isWriteOperation: the map of methods that require the leader
isWriteOperation(method) ==
    method \in {"CreateCollection", "Insert", "Delete", "JoinCluster", "LeaveCluster"}

\* -------------------------------------------------------------- commands
\* CommandType: iota + 1
CmdCreateCollection == 1
CmdInsert == 2
CmdDelete == 3
CmdUpdate == 4
CmdDropCollection == 5

CommandTypes == {CmdCreateCollection, CmdInsert, CmdDelete, CmdUpdate, CmdDropCollection}

\* DistanceFunction, by the names String() gives
DistanceCosine == "Cosine"
DistanceEuclidean == "Euclidean"
DistanceDot == "Dot"
Distances == {DistanceCosine, DistanceEuclidean, DistanceDot}

\* PayloadTableSchema: none, or some table definition
Schemas == {"", "s"}

\* Command{Type, Payload}: the payload is an InsertPoint (collection name, id,
\* vector, kept as its length vec) or a CollectionConfig (collection name,
\* vector dimension in id, distance, payload table schema)
CommandWith(t, c, i, vec, distance, schema) ==
    [type |-> t, coll |-> c, id |-> i, vec |-> vec, distance |-> distance,
     schema |-> schema]

\* the command of a request with a one-element vector or, for CreateCollection,
\* Cosine distance and no payload table
Command(t, c, i) ==
    CommandWith(t, c, i, IF t = CmdInsert THEN 1 ELSE 0,
                IF t = CmdCreateCollection THEN DistanceCosine ELSE "", "")

\* rlog.Data that json.Unmarshal rejects
Undecodable == CommandWith(0, "", 0, 0, "", "")

Commands ==
    {Command(CmdCreateCollection, c, d) : c \in Colls, d \in Dims}
    \cup {Command(CmdInsert, c, i) : c \in Colls, i \in Ids}
    \cup {Command(CmdDelete, c, i) : c \in Colls, i \in Ids}
    \cup {Command(CmdUpdate, c, i) : c \in Colls, i \in Ids}
    \cup {Command(CmdDropCollection, c, 0) : c \in Colls}

\* --------------------------------------------------------------- backend
\* The vector store of one node: its collections and the points in them.
\* colls: the names; dim, distance, schema: the schema of each (0 and "" while
\* absent); points: how many points each (collection, id) has
NoPoints == [p \in Colls \X Ids |-> 0]

EmptyBackend ==
    [colls |-> {}, dim |-> [c \in Colls |-> 0], distance |-> [c \in Colls |-> ""],
     schema |-> [c \in Colls |-> ""], points |-> NoPoints]

\* the store once collection c of dimension d (Cosine, no payload table) was
\* created in an empty one
BackendWith(c, d) ==
    [EmptyBackend EXCEPT !.colls = {c}, !.dim[c] = d, !.distance[c] = DistanceCosine]

\* CreateCollection: an existing name is rejected, with the same schema
\* ("exists") or another one ("conflict"); the store is unchanged
BackendCreateCollection(b, c, d, distance, schema) ==
    IF c \in b.colls
    THEN [res |-> IF b.dim[c] = d /\ b.distance[c] = distance /\ b.schema[c] = schema
                  THEN "exists" ELSE "conflict",
          b |-> b]
    ELSE [res |-> "ok",
          b |-> [b EXCEPT !.colls = @ \cup {c}, !.dim[c] = d,
                          !.distance[c] = distance, !.schema[c] = schema]]

\* Insert: a missing collection, a vector of another length than the collection's
\* dimension or a duplicate id is rejected
BackendInsert(b, c, i, vec) ==
    IF c \notin b.colls THEN [res |-> "missing", b |-> b]
    ELSE IF vec # b.dim[c] THEN [res |-> "mismatch", b |-> b]
    ELSE IF b.points[<<c, i>>] > 0 THEN [res |-> "duplicate", b |-> b]
    ELSE [res |-> "ok", b |-> [b EXCEPT !.points[<<c, i>>] = @ + 1]]

\* Search: the ids of the collection's points; a missing collection is an error
BackendSearch(b, c) ==
    IF c \notin b.colls
    THEN [ok |-> FALSE, ids |-> {}]
    ELSE [ok |-> TRUE, ids |-> {i \in Ids : b.points[<<c, i>>] > 0}]

\* ----------------------------------------------------------------- state
VARIABLES
    raftState,    \* [node -> State()]
    raftLeader,   \* [node -> Leader()], NoAddr when none is known
    config,       \* the Raft configuration: the set of voters
    log,          \* the committed Raft log
    lastApplied,  \* [node -> index of the last entry its FSM applied]
    backend,      \* [node -> the node's vector store]
    fsmCalls,     \* [node -> the backend calls its FSM made, in order]
    rpc,          \* [client -> the RPC it has in flight]
    collector,    \* VectorXLiteSnapshot.collector: the chunks Snapshot collected
    sink,         \* the raft.SnapshotSink Persist writes to
    source,       \* the io.ReadCloser Raft hands to Restore
    restore,      \* the Restore call of a node
    pool,         \* a client's RedirectInterceptor: its connection cache and the calls using it
    boot,         \* [node -> its process and its persisted Raft configuration]
    export        \* a Client.ExportSnapshotSync call: its goroutine, channels and collecting loop

snapVars == <<collector, sink, source, restore>>

vars == <<raftState, raftLeader, config, log, lastApplied, backend, fsmCalls, rpc,
          collector, sink, source, restore, pool, boot, export>>

\* pc "none": nothing to persist; "taken": Snapshot returned the collector;
\* "persisted": Persist returned err.  state is the sink's: "open", "closed"
\* (Close was called) or "cancelled".  data holds the bytes written, events the
\* calls made on the sink, failAt the Write call that fails (0: none does),
\* from the store Snapshot exported.
NoSink ==
    [pc |-> "none", state |-> "open", data |-> <<>>, events |-> <<>>, failAt |-> 0,
     closeFails |-> FALSE, err |-> FALSE, from |-> EmptyBackend]

NoSource == [open |-> FALSE, data |-> <<>>]

\* pc "idle" or "done"; readErr, chunks: what readSnapshotChunks returned; err:
\* what Restore returned; imports: the chunk sequences handed to the backend's
\* ImportSnapshot
NoRestore ==
    [pc |-> "idle", node |-> "", readErr |-> FALSE, chunks |-> <<>>, err |-> FALSE,
     imports |-> <<>>]

SnapIdle ==
    /\ collector = <<>>
    /\ sink = NoSink
    /\ source = NoSource
    /\ restore = NoRestore

\* the goroutines of one program that share a ClusterClient, and the leader
\* addresses their calls are redirected to
Goroutines == {"g1", "g2"}
LeaderAddrs == {ClusterAddr(n) : n \in Nodes}

\* a goroutine's call: pc "idle"; "redirected": the invoker returned a redirect
\* to addr and getOrCreateConnection(addr) is next; "rlocked": it holds the
\* read lock; "miss": it found no entry and released the read lock; "locked":
\* it holds the write lock; "done": getOrCreateConnection returned conn (the
\* number of the connection, 0 for nil) and err.  missed records that the call
\* went on to the write lock.
NoCall == [pc |-> "idle", addr |-> NoAddr, conn |-> 0, err |-> FALSE, missed |-> FALSE]

\* connCache: [address -> number of the cached connection, 0 when it has no
\* entry]; conns: every connection grpc.Dial created for the interceptor, in
\* the order of creation; seedOpen: ClusterClient.conn is open; writer,
\* readers: the holders of connCacheMux; calls: the goroutines' calls; close:
\* ClusterClient.Close, "idle", "locked" (RedirectInterceptor.Close holds the
\* lock), "unlocked" (it returned) or "returned"
NoPool ==
    [connCache |-> [a \in LeaderAddrs |-> 0], conns |-> <<>>, seedOpen |-> TRUE,
     writer |-> "", readers |-> {}, calls |-> [g \in Goroutines |-> NoCall],
     close |-> "idle"]

PoolIdle == pool = NoPool

\* a node's process: pc "down" (not running), "requested" (NewRaftNode sent
\* the bootstrap request to the Raft loop) or "running"; isInitial: the flag
\* of its last NewRaftNode; stored: the configuration in its data directory,
\* {} when it has none; before, after: stored when the last NewRaftNode was
\* called and when Raft had answered its bootstrap request; everInitial: it
\* was constructed with isInitial at least once; added: an AddVoter for it
\* committed
NodeDown ==
    [pc |-> "down", isInitial |-> FALSE, stored |-> {}, before |-> {}, after |-> {},
     everInitial |-> FALSE, added |-> FALSE]

\* the nodes of a running cluster: n1 bootstrapped it, the others were added
Running ==
    [n \in Nodes |->
       [NodeDown EXCEPT !.pc = "running", !.isInitial = (n = "n1"), !.stored = Nodes,
                        !.after = IF n = "n1" THEN {"n1"} ELSE {},
                        !.everInitial = (n = "n1"), !.added = (n # "n1")]]

BootIdle == boot = Running

\* no export has been started: ExportSnapshotSync not called
NoExport ==
    [cpc |-> "idle", ppc |-> "idle", hand |-> <<>>, recvd |-> 0, stream |-> "",
     chunkChan |-> <<>>, chunkClosed |-> FALSE, errChan |-> <<>>, errClosed |-> FALSE,
     cancelled |-> FALSE, early |-> FALSE, collector |-> <<>>, nilErr |-> FALSE,
     ret |-> "", err |-> "", ctxDone |-> FALSE]

ExportIdle == export = NoExport

\* metadata.MD: each key holds the list of its values
NoMd == [redirect |-> <<>>, leaderAddr |-> <<>>]

\* One call of a client.  id is the point's id or, for CreateCollection, the
\* vector dimension; vec is the length of the request's vector.  node .. after
\* describe the RPC the call has at a node;
\* conn .. ret describe the call inside the client's RedirectInterceptor:
\* conn is the address of the connection in use, hops the answered invocations,
\* sent the invocations made, ret what the application got back.
IdleRpc ==
    [pc |-> "idle", node |-> "", method |-> "", coll |-> "", id |-> 0,
     vec |-> 0, distance |-> "", schema |-> "", target |-> "",
     seenState |-> "", seenLeader |-> NoAddr, handlerInvoked |-> FALSE,
     code |-> "", success |-> FALSE, md |-> NoMd, index |-> 0, results |-> {},
     after |-> {}, leaderAddr |-> NoAddr, leaderId |-> "", nodes |-> <<>>, state |-> "",
     conn |-> NoAddr, cfg |-> 0, maxRedirects |-> 0, redirectCount |-> 0,
     connCache |-> {}, hops |-> <<>>, sent |-> <<>>, ret |-> ""]

\* the state a cluster of the given members is in once `pre` is applied everywhere:
\* the bootstrap node n1 leads, the others are followers
ClusterInit(members, pre) ==
    /\ raftState = [n \in Nodes |-> IF n = "n1" THEN "Leader" ELSE "Follower"]
    /\ raftLeader = [n \in Nodes |-> IF n = "n1" THEN RaftAddr("n1") ELSE NoAddr]
    /\ config = members
    /\ log = pre
    /\ lastApplied = [n \in Nodes |-> Len(pre)]
    /\ backend = [n \in Nodes |->
                    IF pre = <<>> THEN EmptyBackend
                    ELSE BackendWith(pre[1].coll, pre[1].id)]
    /\ fsmCalls = [n \in Nodes |->
                    IF pre = <<>> THEN <<>>
                    ELSE <<[index |-> 1, op |-> "CreateCollection",
                            coll |-> pre[1].coll, id |-> pre[1].id,
                            res |-> "ok", error |-> FALSE]>>]
    /\ rpc = [c \in Clients |-> IdleRpc]
    /\ SnapIdle
    /\ PoolIdle
    /\ ExportIdle
    /\ BootIdle

Init ==
    \E pre \in {<<>>} \cup {<<Command(CmdCreateCollection, c, 1)>> : c \in Colls} :
        ClusterInit(Nodes, pre)

\* ------------------------------------------------------------------ Raft
\* heartbeat timeout: the follower forgets the leader and starts an election
Timeout(n) ==
    /\ raftState[n] = "Follower"
    /\ n \in config
    /\ raftState' = [raftState EXCEPT ![n] = "Candidate"]
    /\ raftLeader' = [raftLeader EXCEPT ![n] = NoAddr]
    /\ UNCHANGED <<snapVars, pool, boot, export>>
    /\ UNCHANGED <<config, log, lastApplied, backend, fsmCalls, rpc>>

\* the candidate wins the election
BecomeLeader(n) ==
    /\ raftState[n] = "Candidate"
    /\ n \in config
    /\ \A m \in Nodes : raftState[m] # "Leader"
    /\ raftState' = [raftState EXCEPT ![n] = "Leader"]
    /\ raftLeader' = [raftLeader EXCEPT ![n] = RaftAddr(n)]
    /\ UNCHANGED <<snapVars, pool, boot, export>>
    /\ UNCHANGED <<config, log, lastApplied, backend, fsmCalls, rpc>>

\* the leader loses its leadership
StepDown(n) ==
    /\ raftState[n] = "Leader"
    /\ raftState' = [raftState EXCEPT ![n] = "Follower"]
    /\ raftLeader' = [raftLeader EXCEPT ![n] = NoAddr]
    /\ UNCHANGED <<snapVars, pool, boot, export>>
    /\ UNCHANGED <<config, log, lastApplied, backend, fsmCalls, rpc>>

\* a heartbeat of leader m reaches n
LearnLeader(n, m) ==
    /\ n # m
    /\ raftState[m] = "Leader"
    /\ raftState[n] \in {"Follower", "Candidate"}
    /\ raftLeader[n] # RaftAddr(m) \/ raftState[n] # "Follower"
    /\ raftState' = [raftState EXCEPT ![n] = "Follower"]
    /\ raftLeader' = [raftLeader EXCEPT ![n] = RaftAddr(m)]
    /\ UNCHANGED <<snapVars, pool, boot, export>>
    /\ UNCHANGED <<config, log, lastApplied, backend, fsmCalls, rpc>>


\* ------------------------------------------------------------------- FSM
\* The result of an apply: the store after it, the backend calls made (res is
\* the backend's answer, "unavailable" when the call failed in transport),
\* ApplyResult.Error, and whether log.Fatalf ended the process.

\* applyCreateCollection: one backend CreateCollection; its error is dropped
applyCreateCollection(b, cmd, up) ==
    LET r == BackendCreateCollection(b, cmd.coll, cmd.id, cmd.distance, cmd.schema)
    IN [b |-> IF up THEN r.b ELSE b,
        calls |-> <<[op |-> "CreateCollection", coll |-> cmd.coll, id |-> cmd.id,
                     res |-> IF up THEN r.res ELSE "unavailable"]>>,
        error |-> FALSE, fatal |-> FALSE]

\* a variant whose Insert adds the point without asking for its id
applyInsertAppend(b, cmd, up) ==
    [b |-> IF up /\ cmd.coll \in b.colls
           THEN [b EXCEPT !.points[<<cmd.coll, cmd.id>>] = @ + 1] ELSE b,
     calls |-> <<[op |-> "Insert", coll |-> cmd.coll, id |-> cmd.id,
                  res |-> IF up THEN "ok" ELSE "unavailable"]>>,
     error |-> FALSE, fatal |-> FALSE]

\* applyInsert: one backend Insert; its error is dropped
applyInsert(b, cmd, up) ==
    LET r == BackendInsert(b, cmd.coll, cmd.id, cmd.vec)
    IN [b |-> IF up THEN r.b ELSE b,
        calls |-> <<[op |-> "Insert", coll |-> cmd.coll, id |-> cmd.id,
                     res |-> IF up THEN r.res ELSE "unavailable"]>>,
        error |-> FALSE, fatal |-> FALSE]

\* a variant that answers an undecodable entry with an error and goes on
ApplySkipUndecodable(b, cmd, up) ==
    IF cmd = Undecodable THEN [b |-> b, calls |-> <<>>, error |-> TRUE, fatal |-> FALSE]
    ELSE IF cmd.type = CmdCreateCollection THEN applyCreateCollection(b, cmd, up)
    ELSE IF cmd.type = CmdInsert THEN applyInsert(b, cmd, up)
    ELSE [b |-> b, calls |-> <<>>, error |-> FALSE, fatal |-> FALSE]

\* VxFSM.Apply: decode the envelope (log.Fatalf when that fails), then dispatch
\* on the command type; `up` tells whether the backend answers the call or the
\* call fails in transport
Apply(b, cmd, up) ==
    IF cmd = Undecodable THEN [b |-> b, calls |-> <<>>, error |-> TRUE, fatal |-> TRUE]
    ELSE IF cmd.type = CmdCreateCollection THEN applyCreateCollection(b, cmd, up)
    ELSE IF cmd.type = CmdInsert THEN applyInsert(b, cmd, up)
    ELSE [b |-> b, calls |-> <<>>, error |-> FALSE, fatal |-> FALSE]

\* Raft hands the next committed entry to the node's FSM; a fatal apply ends
\* the node's process before the entry counts as applied
FSMApply(n) ==
    /\ n \in config
    /\ raftState[n] # "Shutdown"
    /\ lastApplied[n] < Len(log)
    /\ \E up \in BOOLEAN :
         LET index == lastApplied[n] + 1
             res == Apply(backend[n], log[index], up)
         IN /\ backend' = [backend EXCEPT ![n] = res.b]
            /\ fsmCalls' = [fsmCalls EXCEPT ![n] =
                   @ \o [k \in 1..Len(res.calls) |->
                           [index |-> index, op |-> res.calls[k].op,
                            coll |-> res.calls[k].coll, id |-> res.calls[k].id,
                            res |-> res.calls[k].res, error |-> res.error]]]
            /\ IF res.fatal
               THEN /\ raftState' = [raftState EXCEPT ![n] = "Shutdown"]
                    /\ raftLeader' = [raftLeader EXCEPT ![n] = NoAddr]
                    /\ UNCHANGED lastApplied
               ELSE /\ lastApplied' = [lastApplied EXCEPT ![n] = index]
                    /\ UNCHANGED <<raftState, raftLeader>>
    /\ UNCHANGED <<snapVars, pool, boot, export>>
    /\ UNCHANGED <<config, log, rpc>>

\* ------------------------------------------------------------------- RPC
\* a client sends one request of the given methods to a node: the collection
\* name, the vector dimension, the vector's length, the distance and the payload
\* table schema are drawn from the given sets
SendRequest(c, methods, names, dims, vecs, distances, schemas) ==
    /\ rpc[c].pc = "idle"
    /\ \E n \in Nodes, m \in methods, coll \in names, i \in Ids, dim \in dims, t \in Nodes,
          vec \in vecs, distance \in distances, schema \in schemas :
         rpc' = [rpc EXCEPT ![c] =
                   [IdleRpc EXCEPT
                      !.pc = "recv", !.node = n, !.method = m,
                      !.coll = IF m \in {"GetClusterInfo"} \cup MembershipMethods
                               THEN "" ELSE coll,
                      !.id = IF m \in {"Insert", "Delete"} THEN i
                             ELSE IF m = "CreateCollection" THEN dim ELSE 0,
                      !.vec = IF m = "Insert" THEN vec ELSE 0,
                      !.distance = IF m = "CreateCollection" THEN distance ELSE "",
                      !.schema = IF m = "CreateCollection" THEN schema ELSE "",
                      !.target = IF m \in MembershipMethods THEN t ELSE "",
                      !.after = {d \in Clients : rpc[d].pc = "done"}]]
    /\ UNCHANGED <<snapVars, pool, boot, export>>
    /\ UNCHANGED <<raftState, raftLeader, config, log, lastApplied, backend, fsmCalls>>

\* a request for a known collection name, with a one-element vector or, for
\* CreateCollection, Cosine distance and no payload table
Send(c, methods) ==
    SendRequest(c, methods, Colls, Dims, {1}, {DistanceCosine}, {""})

\* the workload of Spec: client "a" calls any method, then client "b" searches
Issue(c) ==
    /\ c = "b" => rpc["a"].pc # "idle"
    /\ Send(c, IF c = "a" THEN Methods ELSE {"Search"})

\* the workload of WriteSpec: both clients write, concurrently
IssueWrite(c) ==
    Send(c, {"Insert", "Delete"})

Respond(c, code, success) ==
    [rpc[c] EXCEPT !.pc = "done", !.code = code, !.success = success]

\* a variant that redirects even when no leader is known
NotLeaderAnswerAlwaysRedirect(leaderRaftAddr) ==
    [code |-> "FailedPrecondition",
     md |-> [redirect |-> <<"true">>, leaderAddr |-> <<leaderRaftAddr>>]]

\* a variant that puts the Raft address itself into x-leader-addr
NotLeaderAnswerRaftAddr(leaderRaftAddr) ==
    IF leaderRaftAddr = NoAddr
    THEN [code |-> "Unavailable", md |-> NoMd]
    ELSE [code |-> "FailedPrecondition",
          md |-> [redirect |-> <<"true">>, leaderAddr |-> <<leaderRaftAddr>>]]

\* LeaderRedirectInterceptor.Unary: the answer of a node that is not the leader,
\* from the value Leader() returned
NotLeaderAnswer(leaderRaftAddr) ==
    LET conv == convertRaftToClusterAddr(leaderRaftAddr)
    IN IF leaderRaftAddr = NoAddr
       THEN [code |-> "Unavailable", md |-> NoMd]
       ELSE IF ~conv.ok
       THEN [code |-> "Internal", md |-> NoMd]
       ELSE [code |-> "FailedPrecondition",
             md |-> [redirect |-> <<"true">>, leaderAddr |-> <<conv.addr>>]]

\* LeaderRedirectInterceptor.Unary: the classification and the State() read.
\* seenState keeps the state the node was in at this step.
InterceptState(c) ==
    /\ rpc[c].pc = "recv"
    /\ LET n == rpc[c].node
       IN IF isWriteOperation(rpc[c].method) /\ raftState[n] # "Leader"
          THEN rpc' = [rpc EXCEPT ![c].pc = "notLeader",
                                  ![c].seenState = raftState[n]]
          ELSE rpc' = [rpc EXCEPT ![c].pc = "handler",
                                  ![c].seenState = raftState[n],
                                  ![c].handlerInvoked = TRUE]
    /\ UNCHANGED <<snapVars, pool, boot, export>>
    /\ UNCHANGED <<raftState, raftLeader, config, log, lastApplied, backend, fsmCalls>>

\* LeaderRedirectInterceptor.Unary: the Leader() read and the answer of a non-leader.
\* seenLeader keeps the address Leader() returned.
InterceptLeader(c) ==
    /\ rpc[c].pc = "notLeader"
    /\ LET leaderRaftAddr == raftLeader[rpc[c].node]
           answer == NotLeaderAnswer(leaderRaftAddr)
       IN rpc' = [rpc EXCEPT ![c].pc = "done",
                             ![c].seenLeader = leaderRaftAddr,
                             ![c].code = answer.code,
                             ![c].md = answer.md]
    /\ UNCHANGED <<snapVars, pool, boot, export>>
    /\ UNCHANGED <<raftState, raftLeader, config, log, lastApplied, backend, fsmCalls>>

\* a variant in which Raft accepts the command on a node that does not lead
ProposeAnyState(c, cmd) ==
    /\ Len(log) < MaxLog
    /\ log' = Append(log, cmd)
    /\ rpc' = [rpc EXCEPT ![c].pc = "waitApply", ![c].index = Len(log) + 1]

\* VxRaftNode.Apply as the callbacks use it: a non-leader refuses, the leader
\* appends the command to the log
Propose(c, cmd) ==
    LET n == rpc[c].node
    IN IF raftState[n] # "Leader"
       THEN /\ rpc' = [rpc EXCEPT ![c] = Respond(c, "Unknown", FALSE)]
            /\ UNCHANGED log
       ELSE /\ Len(log) < MaxLog
            /\ log' = Append(log, cmd)
            /\ rpc' = [rpc EXCEPT ![c].pc = "waitApply", ![c].index = Len(log) + 1]

\* CollectionConfigBuilder.Build: the name and the dimension are required
CollectionConfigBuilderBuild(cfg) ==
    IF cfg.coll = "" THEN [ok |-> FALSE, cfg |-> cfg]
    ELSE IF cfg.id = 0 THEN [ok |-> FALSE, cfg |-> cfg]
    ELSE [ok |-> TRUE, cfg |-> cfg]

\* a variant of the builder that accepts every point
InsertPointBuilderBuildAny(p) == [ok |-> TRUE, p |-> p]

\* InsertPointBuilder.Build: the name and a non-empty vector are required
InsertPointBuilderBuild(p) ==
    IF p.coll = "" THEN [ok |-> FALSE, p |-> p]
    ELSE IF p.vec = 0 THEN [ok |-> FALSE, p |-> p]
    ELSE [ok |-> TRUE, p |-> p]

\* ClusterServer.CreateCollection with the OnCreateCollection callback, up to
\* Apply: the configuration is built from the request's name, dimension and
\* payload table schema and Distance(types.DistanceCosine); a builder error
\* is returned before anything is proposed
OnCreateCollection(c) ==
    /\ rpc[c].pc = "handler"
    /\ rpc[c].method = "CreateCollection"
    /\ LET collectionConfig ==
               CollectionConfigBuilderBuild(
                   CommandWith(CmdCreateCollection, rpc[c].coll, rpc[c].id, 0,
                               DistanceCosine, rpc[c].schema))
       IN IF ~collectionConfig.ok
          THEN /\ rpc' = [rpc EXCEPT ![c] = Respond(c, "Unknown", FALSE)]
               /\ UNCHANGED log
          ELSE Propose(c, collectionConfig.cfg)
    /\ UNCHANGED <<snapVars, pool, boot, export>>
    /\ UNCHANGED <<raftState, raftLeader, config, lastApplied, backend, fsmCalls>>

\* ClusterServer.Insert with the OnInsert callback, up to Apply: the point is
\* built from the request; a builder error is returned before anything is proposed
OnInsert(c) ==
    /\ rpc[c].pc = "handler"
    /\ rpc[c].method = "Insert"
    /\ LET insertReq ==
               InsertPointBuilderBuild(
                   CommandWith(CmdInsert, rpc[c].coll, rpc[c].id, rpc[c].vec, "", ""))
       IN IF ~insertReq.ok
          THEN /\ rpc' = [rpc EXCEPT ![c] = Respond(c, "Unknown", FALSE)]
               /\ UNCHANGED log
          ELSE Propose(c, insertReq.p)
    /\ UNCHANGED <<snapVars, pool, boot, export>>
    /\ UNCHANGED <<raftState, raftLeader, config, lastApplied, backend, fsmCalls>>

\* future.Error() returns nil once the leader's FSM has applied the entry;
\* the callback does not look at future.Response()
ApplyDone(c) ==
    /\ rpc[c].pc = "waitApply"
    /\ lastApplied[rpc[c].node] >= rpc[c].index
    /\ rpc' = [rpc EXCEPT ![c] = Respond(c, "OK", TRUE)]
    /\ UNCHANGED <<snapVars, pool, boot, export>>
    /\ UNCHANGED <<raftState, raftLeader, config, log, lastApplied, backend, fsmCalls>>

\* future.Error() returns ErrLeadershipLost: the node stepped down while waiting
ApplyLost(c) ==
    /\ rpc[c].pc = "waitApply"
    /\ raftState[rpc[c].node] # "Leader"
    /\ lastApplied[rpc[c].node] < rpc[c].index
    /\ rpc' = [rpc EXCEPT ![c] = Respond(c, "Unknown", FALSE)]
    /\ UNCHANGED <<snapVars, pool, boot, export>>
    /\ UNCHANGED <<raftState, raftLeader, config, log, lastApplied, backend, fsmCalls>>

\* ClusterServer.Delete with the OnDelete callback: it logs and returns nil
OnDelete(c) ==
    /\ rpc[c].pc = "handler"
    /\ rpc[c].method = "Delete"
    /\ rpc' = [rpc EXCEPT ![c] = Respond(c, "OK", TRUE)]
    /\ UNCHANGED <<snapVars, pool, boot, export>>
    /\ UNCHANGED <<raftState, raftLeader, config, log, lastApplied, backend, fsmCalls>>

\* ClusterServer.Search with the OnSearch callback: the node's own backend answers
OnSearch(c) ==
    /\ rpc[c].pc = "handler"
    /\ rpc[c].method = "Search"
    /\ LET res == BackendSearch(backend[rpc[c].node], rpc[c].coll)
       IN rpc' = [rpc EXCEPT ![c] =
            IF res.ok
            THEN [Respond(c, "OK", TRUE) EXCEPT !.results = res.ids]
            ELSE Respond(c, "Unknown", FALSE)]
    /\ UNCHANGED <<snapVars, pool, boot, export>>
    /\ UNCHANGED <<raftState, raftLeader, config, log, lastApplied, backend, fsmCalls>>

\* ClusterServer.nodeID: NewClusterServer leaves the field unset
nodeID(n) == ""

\* a variant that answers the first configured server when none has the address
findLeaderIDAny(servers, leaderAddr) ==
    IF \E n \in servers : RaftAddr(n) = leaderAddr
    THEN CHOOSE n \in servers : RaftAddr(n) = leaderAddr
    ELSE IF servers # {} THEN CHOOSE n \in servers : TRUE ELSE ""

\* findLeaderID: the id of the configured server that has the leader's
\* address, "" when none has
findLeaderID(servers, leaderAddr) ==
    IF \E n \in servers : RaftAddr(n) = leaderAddr
    THEN CHOOSE n \in servers : RaftAddr(n) = leaderAddr
    ELSE ""

\* GetClusterInfo: the label of a configured server
NodeState(addr, leaderAddr) == IF addr = leaderAddr THEN "leader" ELSE "follower"

\* ClusterServer.GetClusterInfo: reads the configuration and the leader;
\* ClusterInfoResponse.LeaderAddr is what getLeaderAddr returned, string(Leader())
GetClusterInfo(c) ==
    /\ rpc[c].pc = "handler"
    /\ rpc[c].method = "GetClusterInfo"
    /\ LET leaderAddr == raftLeader[rpc[c].node]
       IN rpc' = [rpc EXCEPT ![c] =
                    [Respond(c, "OK", TRUE) EXCEPT
                       !.leaderAddr = leaderAddr,
                       !.leaderId = findLeaderID(config, leaderAddr),
                       !.nodes = [n \in config |-> NodeState(RaftAddr(n), leaderAddr)],
                       !.state = raftState[rpc[c].node]]]
    /\ UNCHANGED <<snapVars, pool, boot, export>>
    /\ UNCHANGED <<raftState, raftLeader, config, log, lastApplied, backend, fsmCalls>>

\* ClusterServer.JoinCluster: AddVoter on the leader adds the voter
JoinCluster(c) ==
    /\ rpc[c].pc = "handler"
    /\ rpc[c].method = "JoinCluster"
    /\ IF raftState[rpc[c].node] = "Leader"
       THEN /\ config' = config \cup {rpc[c].target}
            /\ rpc' = [rpc EXCEPT ![c] =
                         [Respond(c, "OK", TRUE) EXCEPT !.leaderId = nodeID(rpc[c].node)]]
       ELSE /\ rpc' = [rpc EXCEPT ![c] = Respond(c, "Internal", FALSE)]
            /\ UNCHANGED config
    /\ UNCHANGED <<snapVars, pool, boot, export>>
    /\ UNCHANGED <<raftState, raftLeader, log, lastApplied, backend, fsmCalls>>

\* ClusterServer.LeaveCluster: RemoveServer on the leader removes the server;
\* a leader that removed itself steps down
LeaveCluster(c) ==
    /\ rpc[c].pc = "handler"
    /\ rpc[c].method = "LeaveCluster"
    /\ LET n == rpc[c].node
       IN IF raftState[n] = "Leader"
          THEN /\ config' = config \ {rpc[c].target}
               /\ rpc' = [rpc EXCEPT ![c] = Respond(c, "OK", TRUE)]
               /\ IF rpc[c].target = n
                  THEN /\ raftState' = [raftState EXCEPT ![n] = "Follower"]
                       /\ raftLeader' = [raftLeader EXCEPT ![n] = NoAddr]
                  ELSE UNCHANGED <<raftState, raftLeader>>
          ELSE /\ rpc' = [rpc EXCEPT ![c] = Respond(c, "Internal", FALSE)]
               /\ UNCHANGED <<config, raftState, raftLeader>>
    /\ UNCHANGED <<snapVars, pool, boot, export>>
    /\ UNCHANGED <<log, lastApplied, backend, fsmCalls>>

\* pb.UnimplementedClusterServiceServer answers the methods ClusterServer lacks
Unimplemented(c) ==
    /\ rpc[c].pc = "handler"
    /\ rpc[c].method \in {"CollectionExists", "DeleteCollection"}
    /\ rpc' = [rpc EXCEPT ![c] = Respond(c, "Unimplemented", FALSE)]
    /\ UNCHANGED <<snapVars, pool, boot, export>>
    /\ UNCHANGED <<raftState, raftLeader, config, log, lastApplied, backend, fsmCalls>>

Next ==
    \/ \E n \in Nodes : Timeout(n)
    \/ \E n \in Nodes : BecomeLeader(n)
    \/ \E n \in Nodes : StepDown(n)
    \/ \E n, m \in Nodes : LearnLeader(n, m)
    \/ \E n \in Nodes : FSMApply(n)
    \/ \E c \in Clients : Issue(c)
    \/ \E c \in Clients : InterceptState(c)
    \/ \E c \in Clients : InterceptLeader(c)
    \/ \E c \in Clients : OnCreateCollection(c)
    \/ \E c \in Clients : OnInsert(c)
    \/ \E c \in Clients : ApplyDone(c)
    \/ \E c \in Clients : ApplyLost(c)
    \/ \E c \in Clients : OnDelete(c)
    \/ \E c \in Clients : OnSearch(c)
    \/ \E c \in Clients : GetClusterInfo(c)
    \/ \E c \in Clients : JoinCluster(c)
    \/ \E c \in Clients : LeaveCluster(c)
    \/ \E c \in Clients : Unimplemented(c)

Spec == Init /\ [][Next]_vars

\* concurrent writers on a cluster of fixed membership
WriteNext ==
    \/ \E n \in Nodes : Timeout(n)
    \/ \E n \in Nodes : BecomeLeader(n)
    \/ \E n \in Nodes : StepDown(n)
    \/ \E n, m \in Nodes : LearnLeader(n, m)
    \/ \E n \in Nodes : FSMApply(n)
    \/ \E c \in Clients : IssueWrite(c)
    \/ \E c \in Clients : InterceptState(c)
    \/ \E c \in Clients : InterceptLeader(c)
    \/ \E c \in Clients : OnInsert(c)
    \/ \E c \in Clients : ApplyDone(c)
    \/ \E c \in Clients : ApplyLost(c)
    \/ \E c \in Clients : OnDelete(c)

WriteSpec == Init /\ [][WriteNext]_vars


\* the FSM of a single-node cluster alone, fed a committed log of any entries
SeqsUpTo(S, k) == UNION {[1..j -> S] : j \in 0..k}

FsmInit ==
    /\ raftState = [n \in Nodes |-> IF n = "n1" THEN "Leader" ELSE "Follower"]
    /\ raftLeader = [n \in Nodes |-> RaftAddr("n1")]
    /\ config = {"n1"}
    /\ log \in SeqsUpTo(Commands \cup {Undecodable}, MaxLog)
    /\ lastApplied = [n \in Nodes |-> 0]
    /\ backend = [n \in Nodes |-> EmptyBackend]
    /\ fsmCalls = [n \in Nodes |-> <<>>]
    /\ rpc = [c \in Clients |-> IdleRpc]
    /\ SnapIdle
    /\ PoolIdle
    /\ ExportIdle
    /\ BootIdle

FsmNext == \E n \in Nodes : FSMApply(n)

FsmSpec == FsmInit /\ [][FsmNext]_vars

\* Raft keeps handing committed entries to every FSM
FairSpec == Spec /\ \A n \in Nodes : WF_vars(FSMApply(n))

\* ---------------------------------------------------------------- client
\* NewRedirectInterceptor: the cap when the configured value is not positive
DefaultMaxRedirects == 3

\* a variant that keeps the configured value whatever it is
NewRedirectInterceptorKeep(maxRedirects) == maxRedirects

\* NewRedirectInterceptor: the cap the interceptor works with
NewRedirectInterceptor(maxRedirects) ==
    IF maxRedirects <= 0 THEN DefaultMaxRedirects ELSE maxRedirects

\* a variant that follows x-leader-addr whatever x-redirect says
isRedirectResponseAnyFlag(code, md) ==
    /\ code = "FailedPrecondition"
    /\ Len(md.leaderAddr) > 0

\* invokeWithRedirect: the test for a redirect answer
isRedirectResponse(code, md) ==
    /\ code = "FailedPrecondition"
    /\ Len(md.leaderAddr) > 0
    /\ Len(md.redirect) > 0
    /\ md.redirect[1] = "true"

\* getOrCreateConnection: a cached connection, or a new one from grpc.Dial,
\* which does not connect and fails only on the empty target
getOrCreateConnection(connCache, addr) ==
    IF addr \in connCache THEN [ok |-> TRUE, connCache |-> connCache]
    ELSE IF addr = NoAddr THEN [ok |-> FALSE, connCache |-> connCache]
    ELSE [ok |-> TRUE, connCache |-> connCache \cup {addr}]

\* the node whose gRPC service listens on the address, "" when there is none
NodeAt(addr) ==
    IF \E n \in Nodes : ClusterAddr(n) = addr
    THEN CHOOSE n \in Nodes : ClusterAddr(n) = addr
    ELSE ""

\* the application calls a method on a ClusterClient whose seed is a node
UserCall(c, methods, cfgs) ==
    /\ rpc[c].pc = "idle"
    /\ \E n \in Nodes, m \in methods, coll \in Colls, i \in Ids, dim \in Dims, cfg \in cfgs :
         rpc' = [rpc EXCEPT ![c] =
                   [IdleRpc EXCEPT
                      !.pc = "call", !.method = m, !.coll = coll,
                      !.id = IF m \in {"Insert", "Delete"} THEN i
                             ELSE IF m = "CreateCollection" THEN dim ELSE 0,
                      !.vec = IF m = "Insert" THEN 1 ELSE 0,
                      !.distance = IF m = "CreateCollection" THEN DistanceCosine ELSE "",
                      !.conn = ClusterAddr(n),
                      !.cfg = cfg,
                      !.maxRedirects = NewRedirectInterceptor(cfg)]]
    /\ UNCHANGED <<snapVars, pool, boot, export>>
    /\ UNCHANGED <<raftState, raftLeader, config, log, lastApplied, backend, fsmCalls>>

\* invokeWithRedirect, up to the invoker call: give up at the cap, else send
\* the request on the connection in use
Invoke(c) ==
    /\ rpc[c].pc = "call"
    /\ IF rpc[c].redirectCount >= rpc[c].maxRedirects
       THEN rpc' = [rpc EXCEPT ![c].pc = "returned", ![c].ret = "maxRedirects"]
       ELSE rpc' = [rpc EXCEPT
                      ![c].pc = "recv",
                      ![c].node = NodeAt(rpc[c].conn),
                      ![c].sent = Append(@, [conn |-> rpc[c].conn, method |-> rpc[c].method,
                                             coll |-> rpc[c].coll, id |-> rpc[c].id]),
                      ![c].seenState = "", ![c].seenLeader = NoAddr,
                      ![c].handlerInvoked = FALSE, ![c].code = "",
                      ![c].success = FALSE, ![c].md = NoMd, ![c].index = 0]
    /\ UNCHANGED <<snapVars, pool, boot, export>>
    /\ UNCHANGED <<raftState, raftLeader, config, log, lastApplied, backend, fsmCalls>>

\* invokeWithRedirect, after the invoker call: follow a redirect on a pooled
\* connection to x-leader-addr, else hand the answer to the application
FollowRedirect(c) ==
    /\ rpc[c].pc = "done"
    /\ LET hops == Append(rpc[c].hops,
                          [conn |-> rpc[c].conn, code |-> rpc[c].code, md |-> rpc[c].md])
       IN IF rpc[c].code # "OK" /\ isRedirectResponse(rpc[c].code, rpc[c].md)
          THEN LET leaderAddr == rpc[c].md.leaderAddr[1]
                   leaderConn == getOrCreateConnection(rpc[c].connCache, leaderAddr)
               IN IF ~leaderConn.ok
                  THEN rpc' = [rpc EXCEPT ![c].pc = "returned", ![c].ret = "connect",
                                          ![c].hops = hops]
                  ELSE rpc' = [rpc EXCEPT ![c].pc = "call",
                                          ![c].hops = hops,
                                          ![c].connCache = leaderConn.connCache,
                                          ![c].conn = leaderAddr,
                                          ![c].redirectCount = @ + 1]
          ELSE rpc' = [rpc EXCEPT ![c].pc = "returned", ![c].hops = hops,
                                  ![c].ret = IF rpc[c].code = "OK" THEN "reply"
                                             ELSE "status"]
    /\ UNCHANGED <<snapVars, pool, boot, export>>
    /\ UNCHANGED <<raftState, raftLeader, config, log, lastApplied, backend, fsmCalls>>

\* -- the interceptor alone, against a server that may answer anything
AddrChars == {"h", ":", "1", "2"}

\* the answers a server may give: a reply, or a status with any headers
Responses ==
    {[code |-> "OK", md |-> NoMd]}
    \cup {[code |-> "FailedPrecondition", md |-> [redirect |-> r, leaderAddr |-> a]] :
            r \in {<<>>, <<"true">>, <<"false">>},
            a \in {<<>>, <<NoAddr>>} \cup {<<ClusterAddr(n)>> : n \in Nodes}}
    \cup {[code |-> k, md |-> m] :
            k \in {"Unavailable", "Internal", "DeadlineExceeded"},
            m \in {NoMd, [redirect |-> <<"true">>, leaderAddr |-> <<ClusterAddr("n1")>>]}}

\* whatever listens on the connection answers the invocation
ServerAnswer(c) ==
    /\ rpc[c].pc = "recv"
    /\ \E r \in Responses :
         rpc' = [rpc EXCEPT ![c].pc = "done", ![c].code = r.code, ![c].md = r.md,
                            ![c].success = (r.code = "OK")]
    /\ UNCHANGED <<snapVars, pool, boot, export>>
    /\ UNCHANGED <<raftState, raftLeader, config, log, lastApplied, backend, fsmCalls>>

OneClient == {"a"}

ClientNext ==
    \/ \E c \in OneClient : UserCall(c, {"Insert", "Search"}, -1..MaxCfg)
    \/ \E c \in OneClient : Invoke(c)
    \/ \E c \in OneClient : ServerAnswer(c)
    \/ \E c \in OneClient : FollowRedirect(c)

ClientSpec == ClusterInit(Nodes, <<>>) /\ [][ClientNext]_vars

\* the client's goroutine and the server it talks to keep running
ClientFairSpec == ClientSpec /\ WF_vars(ClientNext)

\* -- clients with the interceptor writing to a cluster whose leader is stable
RedirectInit ==
    /\ raftState = [n \in Nodes |-> IF n = "n1" THEN "Leader" ELSE "Follower"]
    /\ raftLeader = [n \in Nodes |-> RaftAddr("n1")]
    /\ config = Nodes
    /\ log = <<Command(CmdCreateCollection, "c1", 1)>>
    /\ lastApplied = [n \in Nodes |-> 1]
    /\ backend = [n \in Nodes |-> BackendWith("c1", 1)]
    /\ fsmCalls = [n \in Nodes |-> <<[index |-> 1, op |-> "CreateCollection",
                                       coll |-> "c1", id |-> 1,
                                       res |-> "ok", error |-> FALSE]>>]
    /\ rpc = [c \in Clients |-> IdleRpc]
    /\ SnapIdle
    /\ PoolIdle
    /\ ExportIdle
    /\ BootIdle

RedirectNext ==
    \/ \E c \in Clients : UserCall(c, {"CreateCollection", "Insert", "Delete"}, 1..MaxCfg)
    \/ \E c \in Clients : Invoke(c)
    \/ \E c \in Clients : InterceptState(c)
    \/ \E c \in Clients : InterceptLeader(c)
    \/ \E c \in Clients : OnCreateCollection(c)
    \/ \E c \in Clients : OnInsert(c)
    \/ \E c \in Clients : OnDelete(c)
    \/ \E c \in Clients : ApplyDone(c)
    \/ \E c \in Clients : FollowRedirect(c)
    \/ \E n \in Nodes : FSMApply(n)

RedirectSpec == RedirectInit /\ [][RedirectNext]_vars /\ WF_vars(RedirectNext)

\* -- the filter on a follower whose Leader() is any address string
AddrStrings == SeqsUpTo(AddrChars, MaxAddrLen) \cup RaftAddrs

AddrInit ==
    /\ raftState = [n \in Nodes |-> IF n = "n1" THEN "Leader" ELSE "Follower"]
    /\ \E a \in AddrStrings : raftLeader = [n \in Nodes |-> a]
    /\ config = Nodes
    /\ log = <<>>
    /\ lastApplied = [n \in Nodes |-> 0]
    /\ backend = [n \in Nodes |-> EmptyBackend]
    /\ fsmCalls = [n \in Nodes |-> <<>>]
    /\ rpc = [c \in Clients |-> IdleRpc]
    /\ SnapIdle
    /\ PoolIdle
    /\ ExportIdle
    /\ BootIdle

AddrNext ==
    \/ \E c \in OneClient : Send(c, {"Insert", "JoinCluster"})
    \/ \E c \in OneClient : InterceptState(c)
    \/ \E c \in OneClient : InterceptLeader(c)

AddrSpec == AddrInit /\ [][AddrNext]_vars

\* -------------------------------------------------------------- snapshot
\* Bytes are the integers 0..255.  A chunk is kept as Metadata (NoMetadata for
\* nil, else the SnapshotID, one digit), FileChunk (NoFileChunk for nil, else
\* the Data bytes), Sequence and IsFinal.
MaxChunks == 2       \* the longest chunk sequence a collector holds
MaxByte == 9         \* the Data bytes of a FileChunk are 0..MaxByte

NoMetadata == 0
NoFileChunk == <<-1>>

SnapshotChunk(meta, file, seq, final) ==
    [Metadata |-> meta, FileChunk |-> file, Sequence |-> seq, IsFinal |-> final]

\* the chunks the codec is exercised with: sequence numbers from 0 on and,
\* for those of two digits, from 9 on
SequenceNumbers == 0..(MaxChunks - 1) \cup 9..(8 + MaxChunks)

Chunks ==
    {SnapshotChunk(meta, file, seq, final) :
        meta \in {NoMetadata, 1}, file \in {NoFileChunk, <<1>>},
        seq \in SequenceNumbers, final \in BOOLEAN}

\* the decimal digits of a number, as json.Marshal writes a uint64
RECURSIVE Digits(_)
Digits(v) == IF v < 10 THEN <<48 + v>> ELSE Digits(v \div 10) \o <<48 + (v % 10)>>

\* a variant that writes the last digit of the sequence number only
MarshalLastDigit(chunk) ==
    <<123>>
    \o (IF chunk.Metadata = NoMetadata THEN <<110>> ELSE <<109, 48 + chunk.Metadata>>)
    \o (IF chunk.FileChunk = NoFileChunk THEN <<110>>
        ELSE <<34>> \o [i \in 1..Len(chunk.FileChunk) |-> 65 + chunk.FileChunk[i]] \o <<34>>)
    \o <<48 + (chunk.Sequence % 10)>>
    \o <<IF chunk.IsFinal THEN 116 ELSE 102>>
    \o <<125>>

\* json.Marshal(chunk): '{', the metadata ('n' for null, else 'm' and the id),
\* the file chunk ('n' for null, else the data between quotes, each byte as a
\* letter), the sequence number in decimal, 't' or 'f' for IsFinal, '}'
Marshal(chunk) ==
    <<123>>
    \o (IF chunk.Metadata = NoMetadata THEN <<110>> ELSE <<109, 48 + chunk.Metadata>>)
    \o (IF chunk.FileChunk = NoFileChunk THEN <<110>>
        ELSE <<34>> \o [i \in 1..Len(chunk.FileChunk) |-> 65 + chunk.FileChunk[i]] \o <<34>>)
    \o Digits(chunk.Sequence)
    \o <<IF chunk.IsFinal THEN 116 ELSE 102>>
    \o <<125>>

IsDigit(b) == b \in 48..57

RECURSIVE DigitsValue(_, _, _)
DigitsValue(data, from, to) ==
    IF to < from THEN 0
    ELSE 10 * DigitsValue(data, from, to - 1) + (data[to] - 48)

\* json.Unmarshal(data, &chunk): ok is FALSE when data is not the encoding of a chunk
Unmarshal(data) ==
    LET n == Len(data)
        bad == [ok |-> FALSE, chunk |-> SnapshotChunk(NoMetadata, NoFileChunk, 0, FALSE)]
        meta ==
            IF n >= 2 /\ data[2] = 110 THEN [ok |-> TRUE, val |-> NoMetadata, next |-> 3]
            ELSE IF n >= 3 /\ data[2] = 109 /\ data[3] \in 49..57
            THEN [ok |-> TRUE, val |-> data[3] - 48, next |-> 4]
            ELSE [ok |-> FALSE, val |-> NoMetadata, next |-> 0]
        file(p) ==
            LET Q == {j \in (p + 1)..n : data[j] = 34}
            IN IF n >= p /\ data[p] = 110
               THEN [ok |-> TRUE, val |-> NoFileChunk, next |-> p + 1]
               ELSE IF n >= p /\ data[p] = 34 /\ Q # {}
               THEN LET q == CHOOSE j \in Q : \A k \in Q : j <= k
                    IN [ok |-> \A j \in (p + 1)..(q - 1) : data[j] \in 65..(65 + MaxByte),
                        val |-> [j \in 1..(q - p - 1) |-> data[p + j] - 65],
                        next |-> q + 1]
               ELSE [ok |-> FALSE, val |-> NoFileChunk, next |-> 0]
        seq(p) ==
            LET E == {k \in p..n : (\A j \in p..k : IsDigit(data[j]))
                                    /\ (k = n \/ ~IsDigit(data[k + 1]))}
            IN IF E = {} THEN [ok |-> FALSE, val |-> 0, next |-> 0]
               ELSE LET e == CHOOSE k \in E : TRUE
                    IN [ok |-> (e > p => data[p] # 48),
                        val |-> DigitsValue(data, p, e), next |-> e + 1]
        final(m, f, s, p) ==
            IF ~(n = p + 1 /\ data[p] \in {116, 102} /\ data[n] = 125) THEN bad
            ELSE [ok |-> TRUE, chunk |-> SnapshotChunk(m.val, f.val, s.val, data[p] = 116)]
        afterSeq(m, f, s) == IF ~s.ok THEN bad ELSE final(m, f, s, s.next)
        afterFile(m, f) == IF ~f.ok THEN bad ELSE afterSeq(m, f, seq(f.next))
        afterMeta(m) == IF ~m.ok THEN bad ELSE afterFile(m, file(m.next))
    IN IF ~(n >= 1 /\ data[1] = 123) THEN bad ELSE afterMeta(meta)

\* binary.Write(w, binary.BigEndian, uint32(len(data))): the four bytes of a
\* length below 2^31
BigEndianPutUint32(v) ==
    <<(v \div 16777216) % 256, (v \div 65536) % 256, (v \div 256) % 256, v % 256>>

\* binary.Read(r, binary.BigEndian, &length): the value of four bytes
BigEndianUint32(b) == b[1] * 16777216 + b[2] * 65536 + b[3] * 256 + b[4]

\* sink.Write(bytes): the failAt-th Write call fails and writes nothing
SinkWrite(w, bytes) ==
    LET calls == Cardinality({k \in DOMAIN w.events : w.events[k].op = "Write"})
        fails == (w.failAt = calls + 1)
    IN [w |-> [w EXCEPT !.data = IF fails THEN @ ELSE @ \o bytes,
                        !.events = Append(@, [op |-> "Write", bytes |-> bytes,
                                              ok |-> ~fails])],
        err |-> fails]

\* writeChunk: the length prefix, then the JSON data
writeChunk(w, chunk) ==
    LET data == Marshal(chunk)
        prefix == SinkWrite(w, BigEndianPutUint32(Len(data)))
    IN IF prefix.err THEN prefix ELSE SinkWrite(prefix.w, data)

\* writeSnapshotToSink: the collector's chunks from the i-th on, until one fails
RECURSIVE writeSnapshotToSink(_, _, _)
writeSnapshotToSink(w, chunks, i) ==
    IF i > Len(chunks) THEN [w |-> w, err |-> FALSE]
    ELSE LET r == writeChunk(w, chunks[i])
         IN IF r.err THEN r ELSE writeSnapshotToSink(r.w, chunks, i + 1)

\* a variant that closes the sink after cancelling it
PersistCloseAlways(w, chunks) ==
    LET r == writeSnapshotToSink(w, chunks, 1)
        cancelled == IF r.err
                     THEN [r.w EXCEPT !.events = Append(@, [op |-> "Cancel", bytes |-> <<>>,
                                                            ok |-> TRUE])]
                     ELSE r.w
    IN [cancelled EXCEPT !.pc = "persisted", !.state = "closed",
                         !.events = Append(@, [op |-> "Close", bytes |-> <<>>,
                                               ok |-> ~w.closeFails]),
                         !.err = r.err \/ w.closeFails]

\* VectorXLiteSnapshot.Persist: write the chunks, Cancel on a write error,
\* else Close and return what Close returns
Persist(w, chunks) ==
    LET r == writeSnapshotToSink(w, chunks, 1)
    IN IF r.err
       THEN [r.w EXCEPT !.pc = "persisted", !.state = "cancelled",
                        !.events = Append(@, [op |-> "Cancel", bytes |-> <<>>,
                                              ok |-> TRUE]),
                        !.err = TRUE]
       ELSE [r.w EXCEPT !.pc = "persisted", !.state = "closed",
                        !.events = Append(@, [op |-> "Close", bytes |-> <<>>,
                                              ok |-> ~w.closeFails]),
                        !.err = w.closeFails]

Drop(s, k) == SubSeq(s, k + 1, Len(s))

\* a variant that takes a cut length prefix for the end of the stream
readChunkLenient(r) ==
    LET none == SnapshotChunk(NoMetadata, NoFileChunk, 0, FALSE)
    IN IF Len(r) < 4 THEN [err |-> "EOF", chunk |-> none, rest |-> <<>>]
       ELSE LET length == BigEndianUint32(SubSeq(r, 1, 4))
                body == Drop(r, 4)
            IN IF Len(body) < length THEN [err |-> "error", chunk |-> none, rest |-> <<>>]
               ELSE LET u == Unmarshal(SubSeq(body, 1, length))
                    IN IF ~u.ok THEN [err |-> "error", chunk |-> none, rest |-> <<>>]
                       ELSE [err |-> "", chunk |-> u.chunk, rest |-> Drop(body, length)]

\* readChunk: io.EOF when the stream has ended, an error for a cut length
\* prefix (io.ErrUnexpectedEOF), a short payload or one that does not unmarshal
readChunk(r) ==
    LET none == SnapshotChunk(NoMetadata, NoFileChunk, 0, FALSE)
    IN IF Len(r) = 0 THEN [err |-> "EOF", chunk |-> none, rest |-> <<>>]
       ELSE IF Len(r) < 4 THEN [err |-> "error", chunk |-> none, rest |-> <<>>]
       ELSE LET length == BigEndianUint32(SubSeq(r, 1, 4))
                body == Drop(r, 4)
            IN IF Len(body) < length THEN [err |-> "error", chunk |-> none, rest |-> <<>>]
               ELSE LET u == Unmarshal(SubSeq(body, 1, length))
                    IN IF ~u.ok THEN [err |-> "error", chunk |-> none, rest |-> <<>>]
                       ELSE [err |-> "", chunk |-> u.chunk, rest |-> Drop(body, length)]

\* a variant that stops at the final chunk before keeping it
RECURSIVE readSnapshotChunksDropFinal(_, _)
readSnapshotChunksDropFinal(rc, chunks) ==
    LET r == readChunk(rc)
    IN IF r.err = "EOF" THEN [err |-> FALSE, chunks |-> chunks]
       ELSE IF r.err # "" THEN [err |-> TRUE, chunks |-> <<>>]
       ELSE IF r.chunk.IsFinal THEN [err |-> FALSE, chunks |-> chunks]
       ELSE readSnapshotChunksDropFinal(r.rest, Append(chunks, r.chunk))

\* a variant that reads on after the final chunk, to the end of the stream
RECURSIVE readSnapshotChunksToEOF(_, _)
readSnapshotChunksToEOF(rc, chunks) ==
    LET r == readChunk(rc)
    IN IF r.err = "EOF" THEN [err |-> FALSE, chunks |-> chunks]
       ELSE IF r.err # "" THEN [err |-> TRUE, chunks |-> <<>>]
       ELSE readSnapshotChunksToEOF(r.rest, Append(chunks, r.chunk))

\* readSnapshotChunks: read chunks until io.EOF or a chunk with IsFinal
RECURSIVE readSnapshotChunks(_, _)
readSnapshotChunks(rc, chunks) ==
    LET r == readChunk(rc)
    IN IF r.err = "EOF" THEN [err |-> FALSE, chunks |-> chunks]
       ELSE IF r.err # "" THEN [err |-> TRUE, chunks |-> <<>>]
       ELSE IF r.chunk.IsFinal THEN [err |-> FALSE, chunks |-> Append(chunks, r.chunk)]
       ELSE readSnapshotChunks(r.rest, Append(chunks, r.chunk))

\* -- the backend's snapshot pair
DistanceIndex(d) ==
    IF d = DistanceCosine THEN 1 ELSE IF d = DistanceEuclidean THEN 2
    ELSE IF d = DistanceDot THEN 3 ELSE 0

DistanceOfIndex(k) ==
    IF k = 1 THEN DistanceCosine ELSE IF k = 2 THEN DistanceEuclidean
    ELSE IF k = 3 THEN DistanceDot ELSE ""

SchemaIndex(s) == IF s = "" THEN 0 ELSE 1
SchemaOfIndex(k) == IF k = 0 THEN "" ELSE "s"

\* the store has one collection name
TheCollection == CHOOSE c \in Colls : TRUE

\* ExportSnapshot: a metadata chunk with the collection's file, then the
\* points' file in the final chunk
BackendExportSnapshot(b) ==
    LET c == TheCollection
    IN <<SnapshotChunk(1, <<IF c \in b.colls THEN 1 ELSE 0, b.dim[c],
                            DistanceIndex(b.distance[c]), SchemaIndex(b.schema[c])>>,
                       0, FALSE),
         SnapshotChunk(NoMetadata, [i \in 1..MaxId |-> b.points[<<c, i>>]], 1, TRUE)>>

\* ImportSnapshot: the store is replaced by the one the chunks hold; chunks
\* that are no snapshot are refused (Success = false) and the store is kept
BackendImportSnapshot(b, chunks) ==
    LET c == TheCollection
        wellFormed ==
            /\ Len(chunks) = 2
            /\ chunks[1].Metadata # NoMetadata /\ chunks[1].FileChunk # NoFileChunk
            /\ Len(chunks[1].FileChunk) = 4
            /\ chunks[2].FileChunk # NoFileChunk /\ Len(chunks[2].FileChunk) = MaxId
            /\ chunks[1].Sequence = 0 /\ chunks[2].Sequence = 1
            /\ ~chunks[1].IsFinal /\ chunks[2].IsFinal
    IN IF ~wellFormed THEN [ok |-> FALSE, b |-> b]
       ELSE [ok |-> TRUE,
             b |-> [colls |-> IF chunks[1].FileChunk[1] = 1 THEN {c} ELSE {},
                    dim |-> [x \in Colls |-> chunks[1].FileChunk[2]],
                    distance |-> [x \in Colls |-> DistanceOfIndex(chunks[1].FileChunk[3])],
                    schema |-> [x \in Colls |-> SchemaOfIndex(chunks[1].FileChunk[4])],
                    points |-> [p \in Colls \X Ids |-> chunks[2].FileChunk[p[2]]]]]

\* -- the FSM's snapshot callbacks
\* VxFSM.Snapshot: ExportSnapshotSync collects the backend's chunks; when the
\* export fails nothing is persisted
Snapshot(n) ==
    /\ sink = NoSink
    /\ raftState[n] # "Shutdown"
    /\ \E up \in BOOLEAN :
         IF up
         THEN /\ collector' = BackendExportSnapshot(backend[n])
              /\ sink' = [NoSink EXCEPT !.pc = "taken", !.from = backend[n]]
         ELSE /\ sink' = [NoSink EXCEPT !.err = TRUE]
              /\ UNCHANGED collector
    /\ UNCHANGED <<raftState, raftLeader, config, log, lastApplied, backend, fsmCalls, rpc,
                   source, restore, pool, boot, export>>

\* Raft calls Persist with a sink whose failAt-th Write fails (0: none) and
\* whose Close may fail
PersistSnapshot ==
    /\ sink.pc = "taken"
    /\ \E failAt \in 0..(2 * Len(collector)), closeFails \in BOOLEAN :
         /\ failAt # 0 => ~closeFails
         /\ sink' = Persist([sink EXCEPT !.failAt = failAt, !.closeFails = closeFails],
                            collector)
    /\ UNCHANGED <<raftState, raftLeader, config, log, lastApplied, backend, fsmCalls, rpc,
                   collector, source, restore, pool, boot, export>>

\* Raft opens a stored snapshot, one whose sink was closed without an error,
\* to restore a node from it
OpenSnapshot ==
    /\ sink.pc = "persisted" /\ sink.state = "closed" /\ ~sink.err
    /\ ~source.open /\ restore.pc = "idle"
    /\ source' = [open |-> TRUE, data |-> sink.data]
    /\ UNCHANGED <<raftState, raftLeader, config, log, lastApplied, backend, fsmCalls, rpc,
                   collector, sink, restore, pool, boot, export>>

\* the streams a damaged store or transfer may deliver instead of s: s cut at
\* any byte, s with one byte set to 0 or to '}', s followed by stray bytes
Damaged(s) ==
    {SubSeq(s, 1, k) : k \in 0..(Len(s) - 1)}
    \cup {[s EXCEPT ![k] = v] : k \in 1..Len(s), v \in {0, 125}}
    \cup {s \o t : t \in {<<0>>, <<0, 0>>, <<0, 0, 0>>, <<0, 0, 0, 7>>,
                          <<0, 0, 0, 1, 125>>}}

DamageSnapshot ==
    /\ source.open /\ source.data = sink.data
    /\ restore.pc = "idle"
    /\ \E d \in Damaged(source.data) \ {source.data} :
         source' = [source EXCEPT !.data = d]
    /\ UNCHANGED <<raftState, raftLeader, config, log, lastApplied, backend, fsmCalls, rpc,
                   collector, sink, restore, pool, boot, export>>

\* a variant of the client's check that lets an empty chunk list through
ImportSnapshotRefusesNone(chunks) == FALSE

\* Client.ImportSnapshot: "no chunks to import", before any stream is opened
ImportSnapshotRefuses(chunks) == Len(chunks) = 0

\* VxFSM.Restore: read the chunks, then ImportSnapshot; the client refuses an
\* empty chunk list, and only a transport error of the import is returned (the
\* response is not looked at)
Restore(n) ==
    /\ source.open /\ restore.pc = "idle"
    /\ LET read == readSnapshotChunks(source.data, <<>>)
       IN IF read.err \/ ImportSnapshotRefuses(read.chunks)
          THEN /\ restore' = [pc |-> "done", node |-> n, readErr |-> read.err,
                              chunks |-> read.chunks, err |-> TRUE, imports |-> <<>>]
               /\ UNCHANGED backend
          ELSE \E up \in BOOLEAN :
                 /\ restore' = [pc |-> "done", node |-> n, readErr |-> FALSE,
                                chunks |-> read.chunks, err |-> ~up,
                                imports |-> <<read.chunks>>]
                 /\ backend' = [backend EXCEPT ![n] =
                                  IF up THEN BackendImportSnapshot(@, read.chunks).b ELSE @]
    /\ source' = [source EXCEPT !.open = FALSE]
    /\ UNCHANGED <<raftState, raftLeader, config, log, lastApplied, fsmCalls, rpc,
                   collector, sink, pool, boot, export>>

\* -- the codec alone: Persist and Restore of any chunk sequence
ChunkSeqs == SeqsUpTo(Chunks, MaxChunks)

CodecInit ==
    /\ raftState = [n \in Nodes |-> IF n = "n1" THEN "Leader" ELSE "Follower"]
    /\ raftLeader = [n \in Nodes |-> RaftAddr("n1")]
    /\ config = Nodes
    /\ log = <<>>
    /\ lastApplied = [n \in Nodes |-> 0]
    /\ backend = [n \in Nodes |-> EmptyBackend]
    /\ fsmCalls = [n \in Nodes |-> <<>>]
    /\ rpc = [c \in Clients |-> IdleRpc]
    /\ collector \in ChunkSeqs
    /\ sink = [NoSink EXCEPT !.pc = "taken"]
    /\ source = NoSource
    /\ restore = NoRestore
    /\ PoolIdle
    /\ ExportIdle
    /\ BootIdle

CodecNext ==
    \/ PersistSnapshot
    \/ OpenSnapshot
    \/ Restore("n2")

CodecSpec == CodecInit /\ [][CodecNext]_vars

\* -- a snapshot stream damaged on its way to a node that holds a collection
\* chunk sequences as an export gives them: numbered from a first sequence
\* number on, the last chunk final and no other
ValidChunks(chunks) ==
    /\ Len(chunks) >= 1
    /\ \A i \in 1..Len(chunks) :
         /\ chunks[i].Sequence = chunks[1].Sequence + (i - 1)
         /\ chunks[i].IsFinal = (i = Len(chunks))

PreRestore == [BackendWith(TheCollection, 1) EXCEPT !.points[<<TheCollection, 1>>] = 1]

DamageInit ==
    /\ raftState = [n \in Nodes |-> IF n = "n1" THEN "Leader" ELSE "Follower"]
    /\ raftLeader = [n \in Nodes |-> RaftAddr("n1")]
    /\ config = Nodes
    /\ log = <<>>
    /\ lastApplied = [n \in Nodes |-> 0]
    /\ backend = [n \in Nodes |-> IF n = "n2" THEN PreRestore ELSE EmptyBackend]
    /\ fsmCalls = [n \in Nodes |-> <<>>]
    /\ rpc = [c \in Clients |-> IdleRpc]
    /\ collector \in {chunks \in ChunkSeqs : ValidChunks(chunks)}
    /\ sink = [NoSink EXCEPT !.pc = "taken"]
    /\ source = NoSource
    /\ restore = NoRestore
    /\ PoolIdle
    /\ ExportIdle
    /\ BootIdle

DamageNext ==
    \/ PersistSnapshot
    \/ OpenSnapshot
    \/ DamageSnapshot
    \/ Restore("n2")

DamageSpec == DamageInit /\ [][DamageNext]_vars

\* -- a node applies a log, is snapshotted, and a fresh node restores from it
SnapshotLogs ==
    {<<>>}
    \cup {<<CommandWith(CmdCreateCollection, TheCollection, d, 0, DistanceCosine, s)>>
          \o [k \in 1..Len(ids) |->
                CommandWith(CmdInsert, TheCollection, ids[k], d, "", "")] :
            d \in Dims, s \in Schemas,
            ids \in {q \in SeqsUpTo(Ids, MaxLog - 1) :
                        \A i, j \in DOMAIN q : i # j => q[i] # q[j]}}

SnapshotInit ==
    /\ raftState = [n \in Nodes |-> IF n = "n1" THEN "Leader" ELSE "Follower"]
    /\ raftLeader = [n \in Nodes |-> RaftAddr("n1")]
    /\ config = {"n1"}
    /\ log \in SnapshotLogs
    /\ lastApplied = [n \in Nodes |-> 0]
    /\ backend = [n \in Nodes |-> EmptyBackend]
    /\ fsmCalls = [n \in Nodes |-> <<>>]
    /\ rpc = [c \in Clients |-> IdleRpc]
    /\ SnapIdle
    /\ PoolIdle
    /\ ExportIdle
    /\ BootIdle

SnapshotNext ==
    \/ FSMApply("n1")
    \/ Snapshot("n1")
    \/ PersistSnapshot
    \/ OpenSnapshot
    \/ Restore("n2")

SnapshotSpec == SnapshotInit /\ [][SnapshotNext]_vars

\* ------------------------------------------------- the client's connection cache
poolRest ==
    <<raftState, raftLeader, config, log, lastApplied, backend, fsmCalls, rpc, snapVars,
      boot, export>>

\* sync.RWMutex: RLock waits for the writer, Lock for the writer and the readers
CanRLock(p) == p.writer = ""
CanLock(p) == p.writer = "" /\ p.readers = {}

\* invokeWithRedirect: the invoker, called on the seed connection while it
\* was open, returned FailedPrecondition with x-redirect and x-leader-addr
InvokeRedirected(g) ==
    /\ pool.calls[g].pc = "idle"
    /\ pool.seedOpen
    /\ \E addr \in LeaderAddrs :
         pool' = [pool EXCEPT !.calls[g] = [NoCall EXCEPT !.pc = "redirected",
                                                          !.addr = addr]]
    /\ UNCHANGED poolRest

\* getOrCreateConnection: connCacheMux.RLock()
ConnCacheRLock(g) ==
    /\ pool.calls[g].pc = "redirected"
    /\ CanRLock(pool)
    /\ pool' = [pool EXCEPT !.readers = @ \cup {g}, !.calls[g].pc = "rlocked"]
    /\ UNCHANGED poolRest

\* getOrCreateConnection: the look-up under the read lock and RUnlock
ConnCacheRUnlock(g) ==
    /\ pool.calls[g].pc = "rlocked"
    /\ LET conn == pool.connCache[pool.calls[g].addr]
       IN pool' = [pool EXCEPT !.readers = @ \ {g},
                               !.calls[g].pc = IF conn # 0 THEN "done" ELSE "miss",
                               !.calls[g].conn = conn]
    /\ UNCHANGED poolRest

\* getOrCreateConnection: connCacheMux.Lock()
ConnCacheLock(g) ==
    /\ pool.calls[g].pc = "miss"
    /\ CanLock(pool)
    /\ pool' = [pool EXCEPT !.writer = g, !.calls[g].pc = "locked",
                            !.calls[g].missed = TRUE]
    /\ UNCHANGED poolRest

\* a variant that dials without looking the address up again
getOrCreateConnectionLockedNoCheck(p, addr, dialed) ==
    IF ~dialed THEN [connCache |-> p.connCache, conns |-> p.conns, conn |-> 0, err |-> TRUE]
    ELSE LET conn == Len(p.conns) + 1
         IN [connCache |-> [p.connCache EXCEPT ![addr] = conn],
             conns |-> Append(p.conns, [addr |-> addr, open |-> TRUE]),
             conn |-> conn, err |-> FALSE]

\* getOrCreateConnection under the write lock: the second look-up, grpc.Dial
\* (dialed: it returned a connection) and the new cache entry
getOrCreateConnectionLocked(p, addr, dialed) ==
    IF p.connCache[addr] # 0
    THEN [connCache |-> p.connCache, conns |-> p.conns, conn |-> p.connCache[addr],
          err |-> FALSE]
    ELSE IF ~dialed
    THEN [connCache |-> p.connCache, conns |-> p.conns, conn |-> 0, err |-> TRUE]
    ELSE LET conn == Len(p.conns) + 1
         IN [connCache |-> [p.connCache EXCEPT ![addr] = conn],
             conns |-> Append(p.conns, [addr |-> addr, open |-> TRUE]),
             conn |-> conn, err |-> FALSE]

\* getOrCreateConnection: the part under the write lock, and the deferred Unlock
ConnCacheDial(g) ==
    /\ pool.calls[g].pc = "locked"
    /\ \E dialed \in BOOLEAN :
         LET r == getOrCreateConnectionLocked(pool, pool.calls[g].addr, dialed)
         IN pool' = [pool EXCEPT !.connCache = r.connCache, !.conns = r.conns,
                                 !.writer = "",
                                 !.calls[g].pc = "done",
                                 !.calls[g].conn = r.conn,
                                 !.calls[g].err = r.err]
    /\ UNCHANGED poolRest

\* the call is over; the goroutine makes its next one
CallReturn(g) ==
    /\ pool.calls[g].pc = "done"
    /\ pool' = [pool EXCEPT !.calls[g] = NoCall]
    /\ UNCHANGED poolRest

\* ClusterClient.Close calls RedirectInterceptor.Close: connCacheMux.Lock()
RedirectInterceptorCloseLock ==
    /\ pool.close = "idle"
    /\ CanLock(pool)
    /\ pool' = [pool EXCEPT !.writer = "close", !.close = "locked"]
    /\ UNCHANGED poolRest

\* conn.Close() on every connection of the cache
CloseCached(p) ==
    [k \in DOMAIN p.conns |->
       IF \E a \in LeaderAddrs : p.connCache[a] = k
       THEN [p.conns[k] EXCEPT !.open = FALSE]
       ELSE p.conns[k]]

\* RedirectInterceptor.Close under the lock: close the cached connections,
\* replace the map by an empty one, Unlock
RedirectInterceptorClose ==
    /\ pool.close = "locked"
    /\ pool' = [pool EXCEPT !.conns = CloseCached(pool),
                            !.connCache = [a \in LeaderAddrs |-> 0],
                            !.writer = "",
                            !.close = "unlocked"]
    /\ UNCHANGED poolRest

\* ClusterClient.Close: return c.conn.Close()
ClusterClientClose ==
    /\ pool.close = "unlocked"
    /\ pool' = [pool EXCEPT !.seedOpen = FALSE, !.close = "returned"]
    /\ UNCHANGED poolRest

PoolInit ==
    /\ raftState = [n \in Nodes |-> IF n = "n1" THEN "Leader" ELSE "Follower"]
    /\ raftLeader = [n \in Nodes |-> RaftAddr("n1")]
    /\ config = Nodes
    /\ log = <<>>
    /\ lastApplied = [n \in Nodes |-> 0]
    /\ backend = [n \in Nodes |-> EmptyBackend]
    /\ fsmCalls = [n \in Nodes |-> <<>>]
    /\ rpc = [c \in Clients |-> IdleRpc]
    /\ SnapIdle
    /\ PoolIdle
    /\ ExportIdle
    /\ BootIdle

\* -- goroutines whose calls are redirected, the client never closed
PoolCalls ==
    \E g \in Goroutines :
      \/ InvokeRedirected(g)
      \/ ConnCacheRLock(g)
      \/ ConnCacheRUnlock(g)
      \/ ConnCacheLock(g)
      \/ ConnCacheDial(g)
      \/ CallReturn(g)

PoolNext == PoolCalls

PoolSpec == PoolInit /\ [][PoolNext]_vars

\* -- the same goroutines and one that closes the client
CloseNext ==
    \/ PoolCalls
    \/ RedirectInterceptorCloseLock
    \/ RedirectInterceptorClose
    \/ ClusterClientClose

CloseSpec == PoolInit /\ [][CloseNext]_vars

\* ------------------------------------------------------- starting a node
bootRest ==
    <<raftState, raftLeader, config, log, lastApplied, backend, fsmCalls, rpc, snapVars,
      pool, export>>

\* NewRaftNode(id, bindAddr, vectorAddr, dataDir, isInitial): the stores of
\* dataDir are opened, Raft is started, and when isInitial is set
\* BootstrapCluster is requested with the configuration {id}.  The future it
\* returns is dropped and (n, nil) is returned either way.
NewRaftNode(n, isInitial) ==
    /\ boot[n].pc = "down"
    /\ boot' = [boot EXCEPT ![n].pc = IF isInitial THEN "requested" ELSE "running",
                            ![n].isInitial = isInitial,
                            ![n].before = boot[n].stored,
                            ![n].after = boot[n].stored,
                            ![n].everInitial = @ \/ isInitial]
    /\ UNCHANGED bootRest

\* a variant that writes the configuration whatever the node has stored
BootstrapClusterOverwrite(stored, configuration) ==
    [err |-> FALSE, stored |-> configuration]

\* raft.BootstrapCluster(configuration): refused (ErrCantBootstrap) when the
\* node has state, else the configuration becomes the node's first one
BootstrapCluster(stored, configuration) ==
    IF stored # {} THEN [err |-> TRUE, stored |-> stored]
    ELSE [err |-> FALSE, stored |-> configuration]

\* the Raft loop answers the bootstrap request of NewRaftNode
LiveBootstrap(n) ==
    /\ boot[n].pc = "requested"
    /\ LET r == BootstrapCluster(boot[n].stored, {n})
       IN boot' = [boot EXCEPT ![n].pc = "running", ![n].stored = r.stored,
                               ![n].after = r.stored]
    /\ UNCHANGED bootRest

\* VxRaftNode.Shutdown: the process ends, the data directory stays
Shutdown(n) ==
    /\ boot[n].pc = "running"
    /\ boot' = [boot EXCEPT ![n].pc = "down"]
    /\ UNCHANGED bootRest

\* ClusterServer.JoinCluster on a node that is in its own configuration: the
\* AddVoter for m commits
AddVoter(l, m) ==
    /\ boot[l].pc = "running" /\ l \in boot[l].stored
    /\ m \notin boot[l].stored
    /\ boot' = [boot EXCEPT ![l].stored = @ \cup {m}, ![m].added = TRUE]
    /\ UNCHANGED bootRest

\* Raft replicates the configuration of l to a running member m
InstallConfiguration(l, m) ==
    /\ l # m
    /\ boot[l].pc = "running" /\ boot[m].pc = "running"
    /\ l \in boot[l].stored /\ m \in boot[l].stored
    /\ boot[m].stored # boot[l].stored
    /\ boot' = [boot EXCEPT ![m].stored = boot[l].stored]
    /\ UNCHANGED bootRest

BootInit ==
    /\ raftState = [n \in Nodes |-> "Follower"]
    /\ raftLeader = [n \in Nodes |-> NoAddr]
    /\ config = {}
    /\ log = <<>>
    /\ lastApplied = [n \in Nodes |-> 0]
    /\ backend = [n \in Nodes |-> EmptyBackend]
    /\ fsmCalls = [n \in Nodes |-> <<>>]
    /\ rpc = [c \in Clients |-> IdleRpc]
    /\ SnapIdle
    /\ PoolIdle
    /\ ExportIdle
    /\ boot = [n \in Nodes |-> NodeDown]

BootNext ==
    \/ \E n \in Nodes, isInitial \in BOOLEAN : NewRaftNode(n, isInitial)
    \/ \E n \in Nodes : LiveBootstrap(n)
    \/ \E n \in Nodes : Shutdown(n)
    \/ \E l, m \in Nodes : AddVoter(l, m)
    \/ \E l, m \in Nodes : InstallConfiguration(l, m)

BootSpec == BootInit /\ [][BootNext]_vars

\* -- a cluster bootstrapped by n1; n2 is started without -bootstrap and
\* nobody calls JoinCluster for it
MemberInit ==
    \E pre \in {<<>>} \cup {<<Command(CmdCreateCollection, c, 1)>> : c \in Colls} :
      /\ raftState = [n \in Nodes |-> IF n = "n1" THEN "Leader" ELSE "Follower"]
      /\ raftLeader = [n \in Nodes |-> IF n = "n1" THEN RaftAddr("n1") ELSE NoAddr]
      /\ config = {"n1"}
      /\ log = pre
      /\ lastApplied = [n \in Nodes |-> IF n = "n1" THEN Len(pre) ELSE 0]
      /\ backend = [n \in Nodes |->
                      IF pre = <<>> \/ n # "n1" THEN EmptyBackend
                      ELSE BackendWith(pre[1].coll, pre[1].id)]
      /\ fsmCalls = [n \in Nodes |->
                      IF pre = <<>> \/ n # "n1" THEN <<>>
                      ELSE <<[index |-> 1, op |-> "CreateCollection",
                              coll |-> pre[1].coll, id |-> pre[1].id,
                              res |-> "ok", error |-> FALSE]>>]
      /\ rpc = [c \in Clients |-> IdleRpc]
      /\ SnapIdle
      /\ PoolIdle
      /\ ExportIdle
      /\ boot = [n \in Nodes |->
                   IF n = "n1"
                   THEN [NodeDown EXCEPT !.pc = "running", !.isInitial = TRUE,
                                         !.stored = {"n1"}, !.after = {"n1"},
                                         !.everInitial = TRUE]
                   ELSE NodeDown]

MemberNext ==
    \/ NewRaftNode("n2", FALSE)
    \/ \E n \in Nodes : FSMApply(n)
    \/ \E c \in Clients : IssueWrite(c)
    \/ \E c \in Clients : InterceptState(c)
    \/ \E c \in Clients : InterceptLeader(c)
    \/ \E c \in Clients : OnInsert(c)
    \/ \E c \in Clients : OnDelete(c)
    \/ \E c \in Clients : ApplyDone(c)

\* the processes run on: the node starts, Raft hands committed entries to the
\* FSMs, and every call is served
MemberSpec ==
    /\ MemberInit
    /\ [][MemberNext]_vars
    /\ WF_vars(NewRaftNode("n2", FALSE))
    /\ \A n \in Nodes : WF_vars(FSMApply(n))
    /\ \A c \in Clients :
         WF_vars(InterceptState(c) \/ InterceptLeader(c) \/ OnInsert(c) \/ OnDelete(c)
                 \/ ApplyDone(c))

\* ------------------------------------------------- the client's snapshot export
MaxStream == 34      \* the most chunks the backend's stream delivers before it ends

\* ExportSnapshot: make(chan *types.SnapshotChunk, 32), make(chan error, 1)
ChunkChanCap == 32
ErrChanCap == 1

exportRest ==
    <<raftState, raftLeader, config, log, lastApplied, backend, fsmCalls, rpc, snapVars,
      pool, boot>>

\* a variant that takes any non-empty collector for complete
IsCompleteNonEmpty(chunks) == Len(chunks) > 0

\* SnapshotCollector.IsComplete: there is a last chunk and it is final
IsComplete(chunks) == Len(chunks) > 0 /\ chunks[Len(chunks)].IsFinal

\* a chunk with is_final has come out of the backend's stream
FinalReceived ==
    \/ export.hand # <<>> /\ export.hand[1].IsFinal
    \/ \E i \in DOMAIN export.chunkChan : export.chunkChan[i].IsFinal
    \/ \E i \in DOMAIN export.collector : export.collector[i].IsFinal

\* ExportSnapshotSync up to its loop: the collector is made and ExportSnapshot
\* makes the two channels and starts the goroutine
ExportSnapshotSync ==
    /\ export.cpc = "idle"
    /\ export' = [export EXCEPT !.cpc = "loop", !.ppc = "open"]
    /\ UNCHANGED exportRest

\* the caller's context is cancelled, or its deadline passes; `early` records
\* that this happened in a call that had not returned, before the stream gave
\* the final chunk
CtxCancel ==
    /\ ~export.cancelled
    /\ export' = [export EXCEPT !.cancelled = TRUE,
                                !.early = (export.cpc # "returned" /\ ~FinalReceived)]
    /\ UNCHANGED exportRest

\* goroutine: stream, err := c.pbClient.ExportSnapshot(ctx, pbReq); the call
\* fails on a context that is done, and may fail otherwise
ExportOpen ==
    /\ export.ppc = "open"
    /\ \E ok \in BOOLEAN :
         /\ ok => ~export.cancelled
         /\ export' = [export EXCEPT !.ppc = IF ok THEN "recv" ELSE "senderr",
                                     !.stream = IF ok THEN @ ELSE "failed"]
    /\ UNCHANGED exportRest

\* goroutine: pbChunk, err := stream.Recv(): the next chunk, io.EOF or an
\* error; an error once the context is done
ExportRecv ==
    /\ export.ppc = "recv"
    /\ \/ /\ ~export.cancelled
          /\ \E final \in BOOLEAN :
               /\ ~final => export.recvd < MaxStream
               /\ export' = [export EXCEPT
                               !.ppc = "send",
                               !.hand = <<[Sequence |-> export.recvd, IsFinal |-> final]>>,
                               !.recvd = @ + 1]
       \/ /\ ~export.cancelled
          /\ export' = [export EXCEPT !.ppc = "closeErr", !.stream = "eof"]
       \/ export' = [export EXCEPT !.ppc = "senderr", !.stream = "failed"]
    /\ UNCHANGED exportRest

\* goroutine: chunkChan <- chunk, which waits while the buffer is full;
\* return after the final chunk
ExportSend ==
    /\ export.ppc = "send"
    /\ Len(export.chunkChan) < ChunkChanCap
    /\ export' = [export EXCEPT
                    !.chunkChan = Append(@, export.hand[1]),
                    !.hand = <<>>,
                    !.ppc = IF export.hand[1].IsFinal THEN "closeErr" ELSE "recv"]
    /\ UNCHANGED exportRest

\* goroutine: errChan <- err; return
ExportSendErr ==
    /\ export.ppc = "senderr"
    /\ Len(export.errChan) < ErrChanCap
    /\ export' = [export EXCEPT !.errChan = Append(@, "stream"), !.ppc = "closeErr"]
    /\ UNCHANGED exportRest

\* goroutine, on return: defer close(errChan) runs first
ExportCloseErr ==
    /\ export.ppc = "closeErr"
    /\ export' = [export EXCEPT !.errClosed = TRUE, !.ppc = "closeChunk"]
    /\ UNCHANGED exportRest

\* goroutine, on return: defer close(chunkChan) runs last
ExportCloseChunk ==
    /\ export.ppc = "closeChunk"
    /\ export' = [export EXCEPT !.chunkClosed = TRUE, !.ppc = "done"]
    /\ UNCHANGED exportRest

\* what ExportSnapshotSync returns with
ExportReturn(ret, err) ==
    [export EXCEPT !.cpc = "returned", !.ret = ret, !.err = err,
                   !.ctxDone = export.cancelled]

\* select, case chunk, ok := <-chunkChan with ok: collector.AddChunk(chunk)
SelectChunk ==
    /\ export.cpc = "loop"
    /\ export.chunkChan # <<>>
    /\ export' = [export EXCEPT !.collector = Append(@, Head(export.chunkChan)),
                                !.chunkChan = Tail(@)]
    /\ UNCHANGED exportRest

\* select, case chunk, ok := <-chunkChan with !ok: the channel is closed and
\* drained
SelectChunkClosed ==
    /\ export.cpc = "loop"
    /\ export.chunkChan = <<>> /\ export.chunkClosed
    /\ export' = IF IsComplete(export.collector)
                 THEN ExportReturn("collector", "")
                 ELSE ExportReturn("err", "incomplete")
    /\ UNCHANGED exportRest

\* select, case err := <-errChan with an error in the channel
SelectErr ==
    /\ export.cpc = "loop"
    /\ export.errChan # <<>>
    /\ export' = [ExportReturn("err", Head(export.errChan)) EXCEPT !.errChan = Tail(@)]
    /\ UNCHANGED exportRest

\* select, case err := <-errChan on the closed channel: err is nil, the loop
\* goes on
SelectErrClosed ==
    /\ export.cpc = "loop"
    /\ export.errChan = <<>> /\ export.errClosed
    /\ export' = [export EXCEPT !.nilErr = TRUE]
    /\ UNCHANGED exportRest

\* select, case <-ctx.Done(): return nil, ctx.Err()
SelectDone ==
    /\ export.cpc = "loop"
    /\ export.cancelled
    /\ export' = ExportReturn("err", "ctx")
    /\ UNCHANGED exportRest

ExportInit ==
    /\ raftState = [n \in Nodes |-> IF n = "n1" THEN "Leader" ELSE "Follower"]
    /\ raftLeader = [n \in Nodes |-> RaftAddr("n1")]
    /\ config = Nodes
    /\ log = <<>>
    /\ lastApplied = [n \in Nodes |-> 0]
    /\ backend = [n \in Nodes |-> EmptyBackend]
    /\ fsmCalls = [n \in Nodes |-> <<>>]
    /\ rpc = [c \in Clients |-> IdleRpc]
    /\ SnapIdle
    /\ PoolIdle
    /\ BootIdle
    /\ ExportIdle

\* the export goroutine
ExportGoroutine ==
    \/ ExportOpen
    \/ ExportRecv
    \/ ExportSend
    \/ ExportSendErr
    \/ ExportCloseErr
    \/ ExportCloseChunk

ExportNext ==
    \/ ExportSnapshotSync
    \/ CtxCancel
    \/ ExportGoroutine
    \/ SelectChunk
    \/ SelectChunkClosed
    \/ SelectErr
    \/ SelectErrClosed
    \/ SelectDone

ExportSpec == ExportInit /\ [][ExportNext]_vars

\* the scheduler runs the goroutine whenever it can take a step, and the
\* caller's loop
ExportFairSpec ==
    /\ ExportSpec
    /\ WF_vars(ExportGoroutine)
    /\ WF_vars(ExportSnapshotSync)
    /\ WF_vars(SelectChunk \/ SelectChunkClosed \/ SelectErr \/ SelectDone)

\* ================================================================ claims
\* -- requests of any shape, valid or not, sent to the cluster
MaybeEmpty(names) == names \cup {""}

ValidNext ==
    \/ \E c \in OneClient :
         SendRequest(c, {"CreateCollection", "Insert"}, MaybeEmpty(Colls),
                     0..MaxDim, 0..MaxDim, Distances, Schemas)
    \/ \E c \in OneClient : InterceptState(c)
    \/ \E c \in OneClient : InterceptLeader(c)
    \/ \E c \in OneClient : OnCreateCollection(c)
    \/ \E c \in OneClient : OnInsert(c)
    \/ \E c \in OneClient : ApplyDone(c)
    \/ \E n \in Nodes : FSMApply(n)

ValidSpec == Init /\ [][ValidNext]_vars

LeaderOnly == {"CreateCollection", "Insert", "Delete", "JoinCluster", "LeaveCluster"}

\* C1: a write or membership RPC that the filter meets on a node that is not
\* the leader is never handed to its handler, and when Leader() returns an
\* address the answer is FailedPrecondition with x-redirect = "true" and
\* x-leader-addr = the coordination address the leader listens on.
C1_RedirectToKnownLeader ==
    \A c \in Clients :
        (rpc[c].method \in LeaderOnly /\ rpc[c].seenState \in {"Follower", "Candidate"})
        => /\ ~rpc[c].handlerInvoked
           /\ (rpc[c].pc = "done" /\ rpc[c].seenLeader # NoAddr)
              => /\ rpc[c].code = "FailedPrecondition"
                 /\ rpc[c].md.redirect = <<"true">>
                 /\ \E m \in Nodes : /\ rpc[c].seenLeader = RaftAddr(m)
                                     /\ rpc[c].md.leaderAddr = <<ClusterAddr(m)>>

C1_Witness ==
    \E c \in Clients :
        /\ rpc[c].pc = "done" /\ rpc[c].method = "Insert" /\ rpc[c].node = "n2"
        /\ rpc[c].seenState = "Follower" /\ rpc[c].seenLeader = RaftAddr("n1")
        /\ rpc[c].code = "FailedPrecondition"
        /\ rpc[c].md = [redirect |-> <<"true">>, leaderAddr |-> <<ClusterAddr("n1")>>]

\* C2 as stated: a write or membership RPC on a Follower with no known leader,
\* or on a Candidate whatever Leader() returns, is answered Unavailable with
\* no redirect metadata and without the handler.
C2_CandidateAlwaysUnavailable ==
    \A c \in Clients :
        (/\ rpc[c].method \in LeaderOnly
         /\ rpc[c].pc = "done"
         /\ \/ rpc[c].seenState = "Follower" /\ rpc[c].seenLeader = NoAddr
            \/ rpc[c].seenState = "Candidate")
        => /\ rpc[c].code = "Unavailable"
           /\ rpc[c].md = NoMd
           /\ ~rpc[c].handlerInvoked

\* C2 amended: a write or membership RPC on a node that is not the leader
\* (Follower or Candidate) for which Leader() returns no address is answered
\* Unavailable with no redirect metadata and without the handler.
C2_NoLeaderUnavailable ==
    \A c \in Clients :
        (/\ rpc[c].method \in LeaderOnly
         /\ rpc[c].pc = "done"
         /\ rpc[c].seenState \in {"Follower", "Candidate"}
         /\ rpc[c].seenLeader = NoAddr)
        => /\ rpc[c].code = "Unavailable"
           /\ rpc[c].md = NoMd
           /\ ~rpc[c].handlerInvoked

C2_Witness ==
    \E c \in Clients :
        /\ rpc[c].pc = "done" /\ rpc[c].method = "JoinCluster"
        /\ rpc[c].seenState = "Candidate" /\ rpc[c].seenLeader = NoAddr
        /\ rpc[c].code = "Unavailable"

\* C3: Search, CollectionExists and GetClusterInfo reach their handler on a
\* node in any Raft state; the filter never answers them itself.
C3_ReadsForwarded ==
    \A c \in Clients :
        (rpc[c].method \in ReadMethods /\ rpc[c].pc \notin {"idle", "recv"})
        => /\ rpc[c].handlerInvoked
           /\ rpc[c].pc # "notLeader"
           /\ rpc[c].code \notin {"FailedPrecondition", "Unavailable"}
           /\ rpc[c].md = NoMd

C3_Witness ==
    \E c \in Clients :
        /\ rpc[c].pc = "done" /\ rpc[c].method = "Search"
        /\ rpc[c].seenState = "Candidate" /\ rpc[c].handlerInvoked
        /\ rpc[c].code = "OK"

\* C4 as stated: a DeleteCollection (DropCollection) RPC met on a node that is
\* not the leader is never handed to a handler; it is answered with the
\* redirect or Unavailable.
C4_DropCollectionLeaderOnly ==
    \A c \in Clients :
        (rpc[c].method = "DeleteCollection" /\ rpc[c].seenState \in {"Follower", "Candidate"})
        => /\ ~rpc[c].handlerInvoked
           /\ rpc[c].pc = "done" => rpc[c].code \in {"FailedPrecondition", "Unavailable"}


\* the command a successful write request stands for
CommandOf(r) ==
    IF r.method = "CreateCollection"
    THEN CommandWith(CmdCreateCollection, r.coll, r.id, 0, r.distance, r.schema)
    ELSE IF r.method = "Insert" THEN CommandWith(CmdInsert, r.coll, r.id, r.vec, "", "")
    ELSE Command(CmdDelete, r.coll, r.id)

Succeeded(c) ==
    /\ rpc[c].pc = "done" /\ rpc[c].code = "OK" /\ rpc[c].success
    /\ rpc[c].method \in {"CreateCollection", "Insert", "Delete"}

\* C5 as stated: a CreateCollection, Insert or Delete RPC that returned
\* success = true has a committed log entry holding the Command of its type
\* and payload.
C5_SuccessMeansCommitted ==
    \A c \in Clients :
        Succeeded(c)
        => /\ rpc[c].index \in 1..Len(log)
           /\ log[rpc[c].index] = CommandOf(rpc[c])

\* the backend operation the spec assigns to a command type
OpOf(t) ==
    IF t = CmdCreateCollection THEN "CreateCollection"
    ELSE IF t = CmdInsert THEN "Insert"
    ELSE IF t = CmdDelete THEN "Delete"
    ELSE "DropCollection"

\* the backend calls node n made for log entry i
CallsFor(n, i) == {k \in DOMAIN fsmCalls[n] : fsmCalls[n][k].index = i}

\* C6 as stated: for every applied entry of type CreateCollection, Insert,
\* Delete or DropCollection the FSM made exactly one backend call, of the
\* operation of that type and with the command's collection and id.
C6_OneBackendCallPerCommand ==
    \A n \in Nodes : \A i \in 1..lastApplied[n] :
        log[i].type \in {CmdCreateCollection, CmdInsert, CmdDelete, CmdDropCollection}
        => /\ Cardinality(CallsFor(n, i)) = 1
           /\ \A k \in CallsFor(n, i) :
                /\ fsmCalls[n][k].op = OpOf(log[i].type)
                /\ fsmCalls[n][k].coll = log[i].coll
                /\ fsmCalls[n][k].id = log[i].id

\* how many points with ids 1..k collection c holds
PointCount(b, c, k) ==
    LET RECURSIVE Sum(_)
        Sum(j) == IF j = 0 THEN 0 ELSE b.points[<<c, j>>] + Sum(j - 1)
    IN Sum(k)

\* Search on node n returns point i of collection c
Observes(n, c, i) == i \in BackendSearch(backend[n], c).ids

\* the FSM of n made its backend calls in log order, at most one per entry
AppliedInOrder(n) ==
    \A j, k \in DOMAIN fsmCalls[n] : j < k => fsmCalls[n][j].index < fsmCalls[n][k].index

\* C7 as stated: every committed entry is eventually applied by every member
\* node, once and in log order, and an Insert that returned success on the
\* leader is eventually returned by Search on every member node.
C7_EventuallyAppliedAndObserved ==
    /\ [](\A n \in Nodes : AppliedInOrder(n))
    /\ \A n \in Nodes : \A i \in 1..MaxLog :
          (Len(log) >= i) ~> (lastApplied[n] >= i \/ n \notin config)
    /\ \A c \in Clients : \A n \in Nodes :
          (Succeeded(c) /\ rpc[c].method = "Insert")
          ~> (n \notin config \/ Observes(n, rpc[c].coll, rpc[c].id))

\* C8 as stated: two nodes that have applied the log through the same index
\* hold the same collections and points.
C8_ReplicaConvergence ==
    \A n, m \in Nodes :
        lastApplied[n] = lastApplied[m] => backend[n] = backend[m]

\* C9 as stated: the writes that returned success each have their own entry
\* in the log, every replica applies the log in order, and N successful
\* Inserts of distinct ids leave N points on every node that applied them.
C9_SuccessfulWritesInLogOrder ==
    /\ \A c \in Clients :
          Succeeded(c) => /\ rpc[c].index \in 1..Len(log)
                          /\ log[rpc[c].index] = CommandOf(rpc[c])
    /\ \A c, d \in Clients :
          (c # d /\ Succeeded(c) /\ Succeeded(d)) => rpc[c].index # rpc[d].index
    /\ \A n \in Nodes : AppliedInOrder(n)
    /\ \A n \in Nodes : \A coll \in Colls :
          LET ins == {c \in Clients : /\ Succeeded(c) /\ rpc[c].method = "Insert"
                                      /\ rpc[c].coll = coll}
          IN (/\ \A c \in Clients : rpc[c].pc = "done"
              /\ ins = Clients
              /\ \A c, d \in ins : c # d => rpc[c].id # rpc[d].id
              /\ \A c \in ins : lastApplied[n] >= rpc[c].index)
             => PointCount(backend[n], coll, MaxId) = Cardinality(ins)

\* C10 as stated: a Search served by a node after a CreateCollection or Insert
\* returned success from that node finds the collection, and the point.
C10_ReadAfterWrite ==
    \A r, w \in Clients :
        (/\ rpc[r].method = "Search" /\ rpc[r].pc = "done"
         /\ w \in rpc[r].after
         /\ Succeeded(w) /\ rpc[w].method \in {"CreateCollection", "Insert"}
         /\ rpc[w].node = rpc[r].node /\ rpc[w].coll = rpc[r].coll)
        => /\ rpc[r].code = "OK"
           /\ rpc[w].method = "Insert" => rpc[w].id \in rpc[r].results

\* C11 as stated: when the backend rejects the operation of a committed
\* CreateCollection or Insert on the node that proposed it (missing collection,
\* schema conflict: anything but a duplicate), the ApplyResult carries an error
\* and the write RPC returns success = false.
C11_BackendErrorFailsWrite ==
    \A c \in Clients :
        (/\ rpc[c].pc = "done"
         /\ rpc[c].method \in {"CreateCollection", "Insert"}
         /\ rpc[c].index > 0)
        => \A k \in CallsFor(rpc[c].node, rpc[c].index) :
              fsmCalls[rpc[c].node][k].res \in {"missing", "conflict"}
              => /\ fsmCalls[rpc[c].node][k].error
                 /\ ~rpc[c].success

\* applying cmd twice to store b, the backend answering both times
Idempotent(b, cmd) ==
    LET once == Apply(b, cmd, TRUE)
        twice == Apply(once.b, cmd, TRUE)
    IN /\ ~once.error /\ ~twice.error
       /\ twice.b = once.b

C13_UndecodableHalts ==
    \A n \in Nodes : \A i \in 1..Len(log) :
        log[i] = Undecodable
        => /\ lastApplied[n] < i
           /\ \A j \in i..Len(log) : CallsFor(n, j) = {}

C13_Witness ==
    \E n \in Nodes :
        /\ Len(log) = 3
        /\ log[1].type = CmdCreateCollection
        /\ log[2] = Undecodable
        /\ log[3].type = CmdInsert
        /\ raftState[n] = "Shutdown"
        /\ lastApplied[n] = 1
        /\ Len(fsmCalls[n]) = 1

\* C14 as stated: a CreateCollection apply that the backend answers with
\* "exists with a different schema" records an error and halts the FSM at that
\* entry; one answered "exists with the identical schema" is a success.
C14_SchemaConflictHalts ==
    \A n \in Nodes : \A k \in DOMAIN fsmCalls[n] :
        /\ fsmCalls[n][k].res = "conflict"
           => /\ fsmCalls[n][k].error
              /\ raftState[n] = "Shutdown"
              /\ lastApplied[n] <= fsmCalls[n][k].index
              /\ k = Len(fsmCalls[n])
        /\ fsmCalls[n][k].res = "exists" => ~fsmCalls[n][k].error

\* C15 as stated: a CreateCollection or Insert that passed the filter on a
\* leader and whose Apply found the node no longer leader is answered
\* FailedPrecondition with x-redirect = "true" and an x-leader-addr.
C15_LeadershipLossRedirects ==
    \A c \in Clients :
        (/\ rpc[c].pc = "done"
         /\ rpc[c].method \in {"CreateCollection", "Insert"}
         /\ rpc[c].seenState = "Leader" /\ rpc[c].handlerInvoked
         /\ rpc[c].index = 0)
        => /\ rpc[c].code = "FailedPrecondition"
           /\ rpc[c].md.redirect = <<"true">>
           /\ Len(rpc[c].md.leaderAddr) = 1

\* the redirect signal: FailedPrecondition with x-redirect "true" and a
\* non-empty x-leader-addr
RedirectSignal(h) ==
    /\ h.code = "FailedPrecondition"
    /\ h.md.redirect # <<>> /\ h.md.redirect[1] = "true"
    /\ h.md.leaderAddr # <<>> /\ h.md.leaderAddr[1] # NoAddr

\* C16: every invocation after the first follows an answer that carried the
\* redirect signal, goes to the address in its x-leader-addr and carries the
\* method and request of the first; and an answer with the redirect signal
\* received below the hop cap is followed by another invocation.
C16_RedirectRule ==
    \A c \in Clients :
        LET r == rpc[c]
        IN /\ \A k \in 2..Len(r.sent) :
                /\ RedirectSignal(r.hops[k - 1])
                /\ r.sent[k].conn = r.hops[k - 1].md.leaderAddr[1]
                /\ r.sent[k].method = r.sent[1].method
                /\ r.sent[k].coll = r.sent[1].coll
                /\ r.sent[k].id = r.sent[1].id
           /\ \A k \in 1..Len(r.hops) :
                (RedirectSignal(r.hops[k]) /\ k < r.maxRedirects)
                => (Len(r.sent) > k \/ r.pc = "call")

C16_Witness ==
    \E c \in Clients :
        /\ rpc[c].pc = "returned" /\ rpc[c].ret = "reply"
        /\ Len(rpc[c].sent) = 2
        /\ rpc[c].sent[1].conn = ClusterAddr("n2")
        /\ rpc[c].sent[2].conn = ClusterAddr("n1")
        /\ rpc[c].hops[1].md = [redirect |-> <<"true">>, leaderAddr |-> <<ClusterAddr("n1")>>]

C18_NonRedirectErrorsUnchanged ==
    \A c \in Clients :
        LET r == rpc[c]
        IN \A k \in 1..Len(r.hops) :
              (r.hops[k].code # "OK" /\ ~RedirectSignal(r.hops[k]))
              => /\ k = Len(r.hops) /\ Len(r.sent) = k
                 /\ r.pc = "returned" /\ r.ret = "status"
                 /\ r.code = r.hops[k].code /\ r.md = r.hops[k].md
                 /\ Cardinality(r.connCache) < k

\* C19 as stated: with a stable leader and a cap of at least the cluster size,
\* no write call returns anything but a reply, and every write call is
\* eventually answered success = true with its command in the leader's log.
C19_RedirectTransparency ==
    /\ [](\A c \in Clients :
            (rpc[c].pc = "returned" /\ rpc[c].maxRedirects >= Cardinality(Nodes))
            => rpc[c].ret = "reply")
    /\ \A c \in Clients :
          (rpc[c].pc # "idle" /\ rpc[c].maxRedirects >= Cardinality(Nodes))
          ~> (/\ rpc[c].pc = "returned" /\ rpc[c].ret = "reply" /\ rpc[c].success
              /\ rpc[c].index \in 1..Len(log)
              /\ log[rpc[c].index] = CommandOf(rpc[c]))

\* C20: for a leader address with a colon whose port ends in 1 the filter's
\* x-leader-addr is that address with the final 1 replaced by 2, which for a
\* node's consensus address is the address its gRPC service listens on; any
\* other non-empty leader address is answered Internal without metadata.
C20_AddressConvention ==
    \A c \in Clients :
        LET r == rpc[c]
            a == r.seenLeader
        IN (r.pc = "done" /\ r.seenState = "Follower" /\ a # NoAddr)
           => IF (\E i \in 1..Len(a) : a[i] = ":") /\ a[Len(a)] = "1"
              THEN /\ r.code = "FailedPrecondition"
                   /\ r.md.redirect = <<"true">>
                   /\ Len(r.md.leaderAddr) = 1
                   /\ Len(r.md.leaderAddr[1]) = Len(a)
                   /\ r.md.leaderAddr[1][Len(a)] = "2"
                   /\ \A i \in 1..(Len(a) - 1) : r.md.leaderAddr[1][i] = a[i]
                   /\ \A n \in Nodes : a = RaftAddr(n) => r.md.leaderAddr[1] = ClusterAddr(n)
              ELSE r.code = "Internal" /\ r.md = NoMd

C20_Witness ==
    \E c \in Clients :
        /\ rpc[c].pc = "done" /\ rpc[c].seenState = "Follower"
        /\ rpc[c].seenLeader = <<"h", ":", "2">>
        /\ rpc[c].code = "Internal"

\* C21: the leader_addr GetClusterInfo returns is the coordination endpoint of
\* the leader (the Raft address converted by the port convention), never the Raft
\* address itself
C21_ClusterInfoLeaderAddr ==
    \A c \in Clients :
        (/\ rpc[c].method = "GetClusterInfo" /\ rpc[c].pc = "done"
         /\ rpc[c].code = "OK" /\ rpc[c].leaderAddr # NoAddr)
        => /\ rpc[c].leaderAddr \in {ClusterAddr(n) : n \in Nodes}
           /\ rpc[c].leaderAddr \notin RaftAddrs

\* a request the builders reject: a CreateCollection without a name or with
\* dimension 0, an Insert without a name or with an empty vector
InvalidRequest(r) ==
    \/ r.method = "CreateCollection" /\ (r.coll = "" \/ r.id = 0)
    \/ r.method = "Insert" /\ (r.coll = "" \/ r.vec = 0)

\* C22: validation failures never reach consensus: the handler of an invalid
\* CreateCollection or Insert answers with a failure and leaves the Raft log unchanged
C22_ValidationBeforeConsensus ==
    [][\A c \in Clients :
          (rpc[c].pc = "handler" /\ InvalidRequest(rpc[c]) /\ rpc'[c].pc # "handler")
          => /\ log' = log
             /\ rpc'[c].pc = "done"
             /\ ~rpc'[c].success /\ rpc'[c].code # "OK" /\ rpc'[c].index = 0]_vars

C22_Witness ==
    \E c \in Clients :
        /\ rpc[c].pc = "done" /\ rpc[c].handlerInvoked /\ InvalidRequest(rpc[c])
        /\ rpc[c].method = "Insert" /\ rpc[c].vec = 0 /\ rpc[c].coll # ""
        /\ raftState[rpc[c].node] = "Leader"
        /\ ~rpc[c].success

\* the dimension the collection was declared with: that of the first
\* CreateCollection command for it in the log, 0 when there is none
DeclaredDimension(coll, upto) ==
    LET S == {i \in 1..upto : log[i].type = CmdCreateCollection /\ log[i].coll = coll}
    IN IF S = {} THEN 0
       ELSE log[CHOOSE i \in S : \A j \in S : i <= j].id

\* C23: an Insert whose vector length differs from the collection's declared
\* dimension is answered success=false and no command is proposed for it
C23_DimensionMismatchRejected ==
    \A c \in Clients :
        LET r == rpc[c]
            declared == DeclaredDimension(r.coll, IF r.index > 0 THEN r.index - 1
                                                  ELSE Len(log))
        IN (/\ r.method = "Insert" /\ r.pc \in {"waitApply", "done"}
            /\ r.handlerInvoked
            /\ declared # 0 /\ r.vec # declared)
           => /\ r.index = 0
              /\ r.pc = "done" => ~r.success

\* C24: the command proposed for a CreateCollection request carries the request's
\* name, dimension, distance and payload table schema, and a node that creates
\* the collection from it creates it with the requested distance
C24_CreateCommandCarriesRequest ==
    \A c \in Clients :
        (rpc[c].method = "CreateCollection" /\ rpc[c].index > 0)
        => /\ log[rpc[c].index] = CommandOf(rpc[c])
           /\ \A n \in Nodes :
                (\E k \in DOMAIN fsmCalls[n] :
                    fsmCalls[n][k].index = rpc[c].index /\ fsmCalls[n][k].res = "ok")
                => backend[n].distance[rpc[c].coll] = rpc[c].distance

\* C25: frame codec round trip: reading the bytes Persist wrote for a chunk
\* sequence with contiguous sequence numbers whose last chunk alone is final
\* yields the same chunks, in order, with the same field values
C25_FrameCodecRoundTrip ==
    /\ (sink.pc = "persisted" /\ sink.state = "closed" /\ ValidChunks(collector))
       => readSnapshotChunks(sink.data, <<>>) = [err |-> FALSE, chunks |-> collector]
    /\ (restore.pc = "done" /\ ValidChunks(collector))
       => (~restore.readErr /\ restore.chunks = collector)

C25_Witness ==
    /\ restore.pc = "done" /\ ValidChunks(collector)
    /\ Len(collector) = 2 /\ collector[2].Sequence = 10
    /\ collector[1].FileChunk # NoFileChunk /\ collector[1].Metadata # NoMetadata
    /\ restore.chunks = collector

\* whether the stream holds a frame that is not whole: a length prefix of 1 to 3
\* bytes, fewer payload bytes than the length says, or a payload that does not
\* deserialize; with untilFinal the frames after a final chunk are not looked at
RECURSIVE PartialFrameIn(_, _)
PartialFrameIn(s, untilFinal) ==
    IF Len(s) = 0 THEN FALSE
    ELSE IF Len(s) < 4 THEN TRUE
    ELSE LET length == BigEndianUint32(SubSeq(s, 1, 4))
         IN IF Len(s) - 4 < length THEN TRUE
            ELSE LET u == Unmarshal(SubSeq(s, 5, 4 + length))
                 IN IF ~u.ok THEN TRUE
                    ELSE IF untilFinal /\ u.chunk.IsFinal THEN FALSE
                    ELSE PartialFrameIn(Drop(s, 4 + length), untilFinal)

\* C26 as stated: any partial frame in the restore stream makes Restore fail,
\* ImportSnapshot is not invoked and the backend keeps its pre-restore state
C26_PartialFrameFailsRestore ==
    (restore.pc = "done" /\ PartialFrameIn(source.data, FALSE))
    => /\ restore.err
       /\ restore.imports = <<>>
       /\ backend[restore.node] = PreRestore

\* C26: a partial frame at or before the first final chunk of the restore stream
\* makes Restore fail, ImportSnapshot is not invoked and the backend keeps its
\* pre-restore state
C26_PartialFrameReadFailsRestore ==
    (restore.pc = "done" /\ PartialFrameIn(source.data, TRUE))
    => /\ restore.err
       /\ restore.imports = <<>>
       /\ backend[restore.node] = PreRestore

C26_Witness ==
    /\ restore.pc = "done" /\ PartialFrameIn(source.data, TRUE)
    /\ Len(source.data) > 4 /\ Len(source.data) < Len(sink.data)
    /\ restore.err /\ restore.imports = <<>>

\* the read API: Search and CollectionExists answer alike on both stores
Indistinguishable(b1, b2) ==
    \A c \in Colls :
        /\ BackendSearch(b1, c) = BackendSearch(b2, c)
        /\ (c \in b1.colls) = (c \in b2.colls)

RECURSIVE Frames(_)
Frames(chunks) ==
    IF chunks = <<>> THEN <<>>
    ELSE BigEndianPutUint32(Len(Marshal(chunks[1]))) \o Marshal(chunks[1])
         \o Frames(Tail(chunks))

\* C28: Persist writes the collector's chunks in order and ends in one terminal
\* call: Close after all chunks were written, or Cancel right after the first
\* write error; it returns an error exactly when it cancelled or Close failed
C28_PersistTerminal ==
    sink.pc = "persisted"
    => LET ev == sink.events
           n == Len(ev)
       IN /\ n >= 1 /\ ev[n].op \in {"Close", "Cancel"}
          /\ \A k \in 1..(n - 1) : ev[k].op = "Write"
          /\ \A k \in 1..(n - 1) : ~ev[k].ok => (k = n - 1 /\ ev[n].op = "Cancel")
          /\ ev[n].op = "Cancel" => (n >= 2 /\ ~ev[n - 1].ok)
          /\ ev[n].op = "Close" => sink.data = Frames(collector)
          /\ sink.data = SubSeq(Frames(collector), 1, Len(sink.data))
          /\ sink.err = (ev[n].op = "Cancel" \/ ~ev[n].ok)

C28_Witness ==
    /\ sink.pc = "persisted" /\ sink.state = "cancelled"
    /\ Len(sink.events) = 4
    /\ sink.err

\* the connections grpc.Dial created for an address
CreatedFor(addr) == {k \in DOMAIN pool.conns : pool.conns[k].addr = addr}

\* C29: however the redirected calls of the goroutines interleave, at most one
\* connection is ever created per leader address, and every call that
\* getOrCreateConnection answered without error got that connection.
C29_OneConnectionPerAddress ==
    /\ \A addr \in LeaderAddrs : Cardinality(CreatedFor(addr)) <= 1
    /\ \A g \in Goroutines :
         LET call == pool.calls[g]
         IN call.pc = "done" /\ ~call.err => CreatedFor(call.addr) = {call.conn}

\* two goroutines missed the same address under the read lock, both went for
\* the write lock, and both hold the one connection
C29_Witness ==
    /\ pool.calls["g1"].pc = "done" /\ pool.calls["g2"].pc = "done"
    /\ pool.calls["g1"].missed /\ pool.calls["g2"].missed
    /\ pool.calls["g1"].addr = pool.calls["g2"].addr
    /\ ~pool.calls["g1"].err /\ ~pool.calls["g2"].err
    /\ pool.calls["g1"].conn = pool.calls["g2"].conn
    /\ pool.calls["g1"].conn # 0

\* C30: once ClusterClient.Close has returned, the seed connection and every
\* connection the client created are closed and the cache is empty, however
\* Close interleaves with the getOrCreateConnection calls.
C30_CloseLeavesNothingOpen ==
    pool.close = "returned" =>
      /\ ~pool.seedOpen
      /\ \A k \in DOMAIN pool.conns : ~pool.conns[k].open
      /\ \A addr \in LeaderAddrs : pool.connCache[addr] = 0

\* C31: no goroutine performs the outbound dial to a leader address while the
\* connection-cache lock is held: every step in which grpc.Dial is called
\* (a connection is created, or the call returns the dial's error) starts
\* with connCacheMux free.
C31_NoLockAcrossDial ==
    [][\A g \in Goroutines :
         (/\ pool.calls[g].pc = "locked"
          /\ pool'.calls[g].pc = "done"
          /\ (Len(pool'.conns) > Len(pool.conns) \/ pool'.calls[g].err))
         => pool.writer = ""]_vars

C33_JoinClusterAnswer ==
    \A c \in Clients :
      (rpc[c].pc = "done" /\ rpc[c].method = "JoinCluster" /\ rpc[c].success)
        => /\ rpc[c].target \in config
           /\ rpc[c].leaderId = rpc[c].node

\* C34: a node started without -bootstrap eventually is a voter of the cluster
\* and has applied what the leader has applied, with no JoinCluster issued
\* for it.
C34_MembershipProgress ==
    (boot["n2"].pc = "running" /\ ~boot["n2"].isInitial)
      ~> ("n2" \in config /\ lastApplied["n2"] = lastApplied["n1"])

\* the nodes that report state Leader
Leaders == {n \in Nodes : raftState[n] = "Leader"}

\* a stable cluster: one node leads and every running node has heard of it
Stable ==
    \E l \in Nodes :
      /\ Leaders = {l}
      /\ \A n \in Nodes : raftState[n] # "Shutdown" => raftLeader[n] = RaftAddr(l)

UpToFinal(chunks) ==
    LET F == {i \in DOMAIN chunks : chunks[i].IsFinal}
    IN IF F = {} THEN chunks
       ELSE SubSeq(chunks, 1, CHOOSE i \in F : \A j \in F : i <= j)

\* C36: reading a stream of whole frames ends without error at the end of the
\* stream or right after the first final chunk: the chunks read, and those
\* handed to ImportSnapshot, are the written ones up to the first final chunk,
\* so at most one of them is final and it is the last.
C36_ReadTermination ==
    restore.pc = "done"
    => /\ ~restore.readErr
       /\ restore.chunks = UpToFinal(collector)
       /\ \A k \in DOMAIN restore.imports :
            /\ restore.imports[k] = UpToFinal(collector)
            /\ \A i \in DOMAIN restore.imports[k] :
                 restore.imports[k][i].IsFinal => i = Len(restore.imports[k])

\* a final chunk is followed by another frame, which is not read
C36_Witness ==
    /\ restore.pc = "done" /\ Len(collector) = 2 /\ collector[1].IsFinal
    /\ restore.chunks = <<collector[1]>>
    /\ restore.imports = <<restore.chunks>>

\* C39: a Restore from a stream of zero frames returns an error, opens no
\* ImportSnapshot stream and leaves the backend as it was; Restore returns nil
\* only when it read at least one chunk and the import call came back without
\* a transport error.
C39_EmptyStreamFailsRestore ==
    /\ (restore.pc = "done" /\ source.data = <<>>)
       => /\ restore.err
          /\ restore.imports = <<>>
          /\ backend[restore.node] = PreRestore
    /\ (restore.pc = "done" /\ ~restore.err)
       => /\ ~restore.readErr /\ Len(restore.chunks) >= 1
          /\ restore.imports = <<restore.chunks>>

\* the stream was cut to nothing and Restore read no chunk, without a read error
C39_Witness ==
    /\ restore.pc = "done" /\ source.data = <<>>
    /\ ~restore.readErr /\ restore.chunks = <<>> /\ restore.err

\* the entries of a response that are labelled "leader"
Labelled(r) == {n \in DOMAIN r.nodes : r.nodes[n] = "leader"}

\* C40: in every GetClusterInfo response an entry is labelled "leader" exactly
\* when its Raft address is the leader address the answering node knows, every
\* other entry is labelled "follower", at most one entry is labelled, and
\* leader_id is the id of the labelled entry, or empty when there is none.
C40_ClusterInfoLabels ==
    [][\A c \in Clients :
         (/\ rpc[c].pc = "handler" /\ rpc[c].method = "GetClusterInfo"
          /\ rpc'[c].pc = "done")
         => LET known == raftLeader[rpc[c].node]
                r == rpc'[c]
            IN /\ DOMAIN r.nodes = config
               /\ \A n \in config :
                    /\ r.nodes[n] \in {"leader", "follower"}
                    /\ r.nodes[n] = "leader" <=> RaftAddr(n) = known
               /\ Cardinality(Labelled(r)) <= 1
               /\ \A n \in Labelled(r) : r.leaderId = n
               /\ Labelled(r) = {} => r.leaderId = ""]_vars

\* a node that knows no leader has answered for a cluster of two: both entries
\* are followers and leader_id is empty
C40_Witness ==
    \E c \in Clients :
      /\ rpc[c].pc = "done" /\ rpc[c].method = "GetClusterInfo"
      /\ rpc[c].leaderAddr = NoAddr
      /\ Cardinality(DOMAIN rpc[c].nodes) = 2
      /\ Labelled(rpc[c]) = {} /\ rpc[c].leaderId = ""

\* the final chunks of a collector
Finals(chunks) == {i \in DOMAIN chunks : chunks[i].IsFinal}

C38_GoroutineEnds ==
    (export.cpc = "returned")
      ~> (export.ppc = "done" /\ export.errClosed /\ export.chunkClosed)

====
